---- MODULE Spec2Model ----
(***************************************************************************)
(* Model of the event detail scraper of ScrapedDuck                       *)
(* (src/pages/detailed/event.js).                                          *)
(*                                                                         *)
(* Texts are TLA+ strings and are processed character by character, the   *)
(* way the JavaScript string and regular-expression operations of the     *)
(* source process them.  A JavaScript null in a string-valued place is    *)
(* the reserved text NULL, which no document text equals.                  *)
(***************************************************************************)
EXTENDS Integers, Sequences, FiniteSets, TLC

\* ------------------------------------------------------------------------
\* Bounds of the model
\* ------------------------------------------------------------------------
\* the elements a page has in its sections, all sections together
MaxElems == 5
\* the H2 headings of a page that are day headings
MaxDaySections == 1
\* the entries of the backup array
MaxBkp == 2
\* the heading words a text handed to getTierFromRaidType is made of
MaxFragments == 3

\* ------------------------------------------------------------------------
\* JavaScript string primitives
\* ------------------------------------------------------------------------
NULL == "<null>"

UpperChars == <<"A","B","C","D","E","F","G","H","I","J","K","L","M",
                "N","O","P","Q","R","S","T","U","V","W","X","Y","Z">>

LowerChars == <<"a","b","c","d","e","f","g","h","i","j","k","l","m",
                "n","o","p","q","r","s","t","u","v","w","x","y","z">>

DigitChars == {"0","1","2","3","4","5","6","7","8","9"}

UpperSet == {UpperChars[i] : i \in 1..26}

LowerSet == {LowerChars[i] : i \in 1..26}

\* \w of a JavaScript regular expression
WordChars == UpperSet \cup LowerSet \cup DigitChars \cup {"_"}

\* \s of a JavaScript regular expression (the characters the texts can hold)
SpaceChars == {" ", "\t", "\n"}

LowerOf == [c \in UpperSet |-> LowerChars[CHOOSE i \in 1..26 : UpperChars[i] = c]]

UpperOf == [c \in LowerSet |-> UpperChars[CHOOSE i \in 1..26 : LowerChars[i] = c]]

charAt(s, i) == SubSeq(s, i, i)

\* s.slice(i - 1): the rest of s from the 1-based position i
sliceFrom(s, i) == SubSeq(s, i, Len(s))

\* the characters of s from the 1-based position i on, in lower case
RECURSIVE lowerFrom(_, _)
lowerFrom(s, i) ==
  IF i > Len(s) THEN ""
  ELSE (IF charAt(s, i) \in UpperSet THEN LowerOf[charAt(s, i)] ELSE charAt(s, i))
       \o lowerFrom(s, i + 1)

\* s.toLowerCase(), for the value text of s
toLowerCase(s) == CHOOSE lower \in {lowerFrom(text, 1) : text \in {s}} : TRUE

\* s starts with p at the 1-based position i
startsWithAt(s, p, i) ==
  /\ i >= 1
  /\ i + Len(p) - 1 <= Len(s)
  /\ SubSeq(s, i, i + Len(p) - 1) = p

\* s.includes(p), for the values text of s and part of p
includes(s, p) ==
  \E text \in {s} : \E part \in {p} :
     \E i \in 1..(Len(text) + 1) : startsWithAt(text, part, i)

\* first position >= i whose character is not in class (Len(s) + 1 if none):
\* the end of a greedy run of a character class
RECURSIVE skipClass(_, _, _)
skipClass(s, i, class) ==
  IF i > Len(s) THEN i
  ELSE IF charAt(s, i) \in class THEN skipClass(s, i + 1, class)
  ELSE i

RECURSIVE skipBack(_, _, _)
skipBack(s, i, class) ==
  IF i < 1 THEN i
  ELSE IF charAt(s, i) \in class THEN skipBack(s, i - 1, class)
  ELSE i

trim(s) ==
  LET a == skipClass(s, 1, SpaceChars)
      b == skipBack(s, Len(s), SpaceChars)
  IN  IF a > b THEN "" ELSE SubSeq(s, a, b)

\* ------------------------------------------------------------------------
\* Matching a regular expression piece at a position of a text.  A position
\* is 1-based; a piece yields the position after its match and 0 when it
\* does not match, and a piece entered at 0 yields 0, so that the pieces of
\* a pattern nest in the order the pattern lists them.
\* ------------------------------------------------------------------------
Max(S) == CHOOSE x \in S : \A y \in S : y <= x

Min(S) == CHOOSE x \in S : \A y \in S : x <= y

MinOrZero(S) == IF S = {} THEN 0 ELSE Min(S)

MaxOrZero(S) == IF S = {} THEN 0 ELSE Max(S)

firstNonZero(a, b) == IF a > 0 THEN a ELSE b

\* the literal text
lit(s, p, text) == IF p > 0 /\ startsWithAt(s, text, p) THEN p + Len(text) ELSE 0

\* the literal text, optional: (text)?
litOpt(s, p, text) == IF p > 0 /\ startsWithAt(s, text, p) THEN p + Len(text) ELSE p

\* one character of the class: [class]
oneOf(s, p, class) ==
  IF p > 0 /\ p <= Len(s) /\ charAt(s, p) \in class THEN p + 1 ELSE 0

\* a greedy nonempty run of the class: [class]+
run(s, p, class) ==
  IF p > 0 /\ skipClass(s, p, class) > p THEN skipClass(s, p, class) ELSE 0

\* a greedy run of the class: [class]*
runOpt(s, p, class) == IF p > 0 THEN skipClass(s, p, class) ELSE 0

DayNames == <<"monday", "tuesday", "wednesday", "thursday", "friday", "saturday", "sunday">>

HyphenWordChars == WordChars \cup {"-"}

HyphenSpaceChars == SpaceChars \cup {"-"}

TimeChars == DigitChars \cup {":"}

\* (Monday|...|Sunday), on a lower-cased text
dayName(sl, p) ==
  IF p > 0 /\ \E d \in 1..7 : startsWithAt(sl, DayNames[d], p)
  THEN p + Len(DayNames[CHOOSE d \in 1..7 : startsWithAt(sl, DayNames[d], p)])
  ELSE 0

\* datePattern = dayPattern + ',\s+\w+\s+\d+' with the flag i, on a
\* lower-cased text (event.js 174-175)
datePatternEnd(sl, i) ==
  run(sl, run(sl, run(sl, run(sl, lit(sl, dayName(sl, i), ","),
      SpaceChars), WordChars), SpaceChars), DigitChars)

datePatternIn(sl) == \E i \in 1..Len(sl) : datePatternEnd(sl, i) > 0

\* new RegExp(datePattern, 'i').test(s)  (event.js 181-182)
datePatternTest(s) == datePatternIn(toLowerCase(s))

\* /^(Monday|...|Sunday),\s+\w+\s+\d+/i.test(s)  (event.js 51-52)
dayPatternTest(s) == datePatternEnd(toLowerCase(s), 1) > 0

\* 'shadow\s+raid'
shadowRaidEnd(sl, n) == lit(sl, run(sl, lit(sl, n, "shadow"), SpaceChars), "raid")

\* '(?:shadow\s+)?raids?'
raidsEnd(sl, n) == litOpt(sl, firstNonZero(shadowRaidEnd(sl, n), lit(sl, n, "raid")), "s")

\* '[\s-]*star[\s-]*(?:shadow\s+)?raids?' after a '[\w-]+' that ends before k
starRaidsEnd(sl, k) ==
  raidsEnd(sl, runOpt(sl, lit(sl, runOpt(sl, k, HyphenSpaceChars), "star"),
                      HyphenSpaceChars))

\* '[\w-]+[\s-]*star[\s-]*(?:shadow\s+)?raids?' matched from b: the ends k
\* of '[\w-]+' for which the rest matches
starRaidsSplits(sl, b) ==
  IF b > 0
  THEN {k \in (b + 1)..skipClass(sl, b, HyphenWordChars) : starRaidsEnd(sl, k) > 0}
  ELSE {}

\* the greedy '[\w-]+' takes the largest
starRaidsMatchEnd(sl, b) == starRaidsEnd(sl, MaxOrZero(starRaidsSplits(sl, b)))

\* ------------------------------------------------------------------------
\* getTierFromRaidType (event.js 152-167)
\* ------------------------------------------------------------------------
TierLabels == {"Tier 1", "Tier 3", "Tier 5", "Tier 6", "Mega", "Primal", "Shadow"}

truthy(text) == text # NULL /\ text # ""

\* the chain of tests, were it to know the labels it returns
tierOfLower_acceptsLabel(raidTypeLower) ==
  IF \/ includes(raidTypeLower, "one-star") \/ includes(raidTypeLower, "1-star")
     \/ includes(raidTypeLower, "tier 1")
  THEN "Tier 1"
  ELSE IF \/ includes(raidTypeLower, "three-star") \/ includes(raidTypeLower, "3-star")
          \/ includes(raidTypeLower, "tier 3")
  THEN "Tier 3"
  ELSE IF \/ includes(raidTypeLower, "five-star") \/ includes(raidTypeLower, "5-star")
          \/ includes(raidTypeLower, "tier 5")
  THEN "Tier 5"
  ELSE IF \/ includes(raidTypeLower, "six-star") \/ includes(raidTypeLower, "6-star")
          \/ includes(raidTypeLower, "tier 6")
  THEN "Tier 6"
  ELSE IF includes(raidTypeLower, "mega") THEN "Mega"
  ELSE IF includes(raidTypeLower, "primal") THEN "Primal"
  ELSE IF includes(raidTypeLower, "shadow") /\ ~includes(raidTypeLower, "star")
  THEN "Shadow"
  ELSE NULL

\* the chain of tests, were the shadow test the first one
tierOfLower_shadowFirst(raidTypeLower) ==
  IF includes(raidTypeLower, "shadow") THEN "Shadow"
  ELSE IF includes(raidTypeLower, "one-star") \/ includes(raidTypeLower, "1-star")
  THEN "Tier 1"
  ELSE IF includes(raidTypeLower, "three-star") \/ includes(raidTypeLower, "3-star")
  THEN "Tier 3"
  ELSE IF includes(raidTypeLower, "five-star") \/ includes(raidTypeLower, "5-star")
  THEN "Tier 5"
  ELSE IF includes(raidTypeLower, "six-star") \/ includes(raidTypeLower, "6-star")
  THEN "Tier 6"
  ELSE IF includes(raidTypeLower, "mega") THEN "Mega"
  ELSE IF includes(raidTypeLower, "primal") THEN "Primal"
  ELSE NULL

\* the chain of tests on raidTypeLower (event.js 158-166)
tierOfLower(raidTypeLower) ==
  IF includes(raidTypeLower, "one-star") \/ includes(raidTypeLower, "1-star")
  THEN "Tier 1"
  ELSE IF includes(raidTypeLower, "three-star") \/ includes(raidTypeLower, "3-star")
  THEN "Tier 3"
  ELSE IF includes(raidTypeLower, "five-star") \/ includes(raidTypeLower, "5-star")
  THEN "Tier 5"
  ELSE IF includes(raidTypeLower, "six-star") \/ includes(raidTypeLower, "6-star")
  THEN "Tier 6"
  ELSE IF includes(raidTypeLower, "mega") THEN "Mega"
  ELSE IF includes(raidTypeLower, "primal") THEN "Primal"
  ELSE IF includes(raidTypeLower, "shadow") /\ ~includes(raidTypeLower, "star")
  THEN "Shadow"
  ELSE NULL

getTierFromRaidType(raidType) ==
  IF truthy(raidType) THEN tierOfLower(toLowerCase(raidType)) ELSE NULL

\* ------------------------------------------------------------------------
\* parseRaidHeader (event.js 172-214)
\* ------------------------------------------------------------------------
NoHeader == [raidType |-> NULL, date |-> NULL]

firstHeader(a, b) == IF a # NoHeader THEN a ELSE b

\* the characters of s that are no line terminator: what '.' matches
DotChars(s) == {charAt(s, j) : j \in 1..Len(s)} \ {"\n"}

\* the positions where group 2 of /([^:]+):\s*(.+)/ can start after the
\* colon at c: after a run of white space, on a character '.' matches
group2Starts(s, c) ==
  {q \in (c + 1)..Len(s) :
     /\ charAt(s, q) # "\n"
     /\ \A j \in (c + 1)..(q - 1) : charAt(s, j) \in SpaceChars}

\* headerText.match(/([^:]+):\s*(.+)/): the colon the match uses, 0 if no match
typeAndDateColon(s) ==
  MinOrZero({c \in 2..Len(s) :
               /\ charAt(s, c) = ":"
               /\ charAt(s, c - 1) # ":"
               /\ group2Starts(s, c) # {}})

\* group 1 of that match: the text between the previous colon and the colon
typeAndDateGroup1(s, c) ==
  SubSeq(s, MaxOrZero({p \in 1..(c - 1) : charAt(s, p) = ":"}) + 1, c - 1)

\* the start of group 2: the greedy \s* takes all the white space it can
group2Start(s, c) ==
  IF skipClass(s, c + 1, SpaceChars) \in group2Starts(s, c)
  THEN skipClass(s, c + 1, SpaceChars)
  ELSE Max(group2Starts(s, c))

lineFrom(s, st) == SubSeq(s, st, skipClass(s, st, DotChars(s)) - 1)

\* group 2 of that match: up to the end of the line
typeAndDateGroup2(s, c) == lineFrom(s, group2Start(s, c))

typeAndDateOf(group1, group2) ==
  IF datePatternTest(group2)
  THEN [raidType |-> trim(group1), date |-> trim(group2)]
  ELSE NoHeader

typeAndDateAt(headerText, c) ==
  IF c > 0
  THEN typeAndDateOf(typeAndDateGroup1(headerText, c), typeAndDateGroup2(headerText, c))
  ELSE NoHeader

\* the 'Type: Date' format (event.js 179-188)
typeAndDate(headerText) == typeAndDateAt(headerText, typeAndDateColon(headerText))

dateOnlyAt(headerText, contextRaidType, end) ==
  IF end > 0 /\ truthy(contextRaidType)
  THEN [raidType |-> contextRaidType, date |-> trim(SubSeq(headerText, 1, end - 1))]
  ELSE NoHeader

\* the date-only format (event.js 193-200)
dateOnly(headerText, contextRaidType) ==
  dateOnlyAt(headerText, contextRaidType, datePatternEnd(toLowerCase(headerText), 1))

\* 'appearing in\s+(...star...raids?)\s*\((day)\)' with a match that starts
\* at i: the start and the end of group 1, the start of group 2, the end
parensGroup1(sl, i) == run(sl, lit(sl, i, "appearing in"), SpaceChars)

parensGroup1End(sl, i) == starRaidsMatchEnd(sl, parensGroup1(sl, i))

parensGroup2(sl, i) == lit(sl, runOpt(sl, parensGroup1End(sl, i), SpaceChars), "(")

parensEnd(sl, i) == lit(sl, dayName(sl, parensGroup2(sl, i)), ")")

dayInParensAt(headerText, sl, i) ==
  IF i > 0
  THEN [raidType |-> trim(SubSeq(headerText, parensGroup1(sl, i),
                                 parensGroup1End(sl, i) - 1)),
        date     |-> trim(SubSeq(headerText, parensGroup2(sl, i),
                                 dayName(sl, parensGroup2(sl, i)) - 1))]
  ELSE NoHeader

dayInParensIn(headerText, sl) ==
  dayInParensAt(headerText, sl, MinOrZero({i \in 1..Len(sl) : parensEnd(sl, i) > 0}))

\* the 'Appearing in X-Star Raids (DayName)' format (event.js 204-211)
dayInParens(headerText) == dayInParensIn(headerText, toLowerCase(headerText))

\* parseRaidHeader, were the date-only format tried before 'Type: Date'
parseRaidHeader_dateOnlyFirst(headerText, contextRaidType) ==
  firstHeader(dateOnly(headerText, contextRaidType),
              firstHeader(typeAndDate(headerText),
                          dayInParens(headerText)))

\* the three formats in the order of the code: the first that matches returns
\* (event.js 172-214)
parseRaidHeader(headerText, contextRaidType) ==
  firstHeader(typeAndDate(headerText),
              firstHeader(dateOnly(headerText, contextRaidType),
                          dayInParens(headerText)))

\* ------------------------------------------------------------------------
\* The raid type context a heading that is no date header sets
\* (processRaidsSection, event.js 410-444)
\* ------------------------------------------------------------------------
orElse(text, default) == IF text # NULL THEN text ELSE default

\* h3Text.match(/appearing in\s+([\w-]+)[\s-]*raids?/i) with a match that
\* starts at i: the start of group 1 and the ends k of the group after
\* which the rest matches
appearingGroupStart(sl, i) == run(sl, lit(sl, i, "appearing in"), SpaceChars)

appearingSplitsFrom(sl, b) ==
  IF b > 0
  THEN {k \in (b + 1)..skipClass(sl, b, HyphenWordChars) :
          lit(sl, runOpt(sl, k, HyphenSpaceChars), "raid") > 0}
  ELSE {}

appearingSplits(sl, i) == appearingSplitsFrom(sl, appearingGroupStart(sl, i))

appearingGroupAt(h3Text, sl, i) ==
  IF i > 0
  THEN SubSeq(h3Text, appearingGroupStart(sl, i), Max(appearingSplits(sl, i)) - 1)
  ELSE NULL

\* group 1 of that match, NULL if there is no match (event.js 415)
appearingGroup(h3Text, sl) ==
  appearingGroupAt(h3Text, sl, MinOrZero({i \in 1..Len(sl) : appearingSplits(sl, i) # {}}))

\* base.replace(/-star$/i, '')
stripStarSuffix(base) ==
  IF startsWithAt(toLowerCase(base), "-star", Len(base) - 4)
  THEN SubSeq(base, 1, Len(base) - 5)
  ELSE base

\* base.replace(/\s+star$/i, '')
stripSpaceStarSuffix(base) ==
  IF /\ startsWithAt(toLowerCase(base), "star", Len(base) - 3)
     /\ skipBack(base, Len(base) - 4, SpaceChars) < Len(base) - 4
  THEN SubSeq(base, 1, skipBack(base, Len(base) - 4, SpaceChars))
  ELSE base

\* base.charAt(0).toUpperCase() + base.slice(1)
capitalize(base) ==
  IF base = "" THEN ""
  ELSE (IF Head(base) \in LowerSet THEN UpperOf[Head(base)] ELSE Head(base)) \o Tail(base)

\* the context built from group 1 (event.js 416-423)
appearingContext(group) ==
  IF group = NULL THEN NULL
  ELSE capitalize(trim(stripSpaceStarSuffix(stripStarSuffix(toLowerCase(group)))))
       \o "-Star Raids"

directGroupAt(h3Text, sl, i) ==
  IF i > 0 THEN trim(SubSeq(h3Text, i, starRaidsMatchEnd(sl, i) - 1)) ELSE NULL

\* h3Text.match(/([\w-]+[\s-]*star[\s-]*(?:shadow\s+)?raids?)/i): group 1
\* trimmed, NULL if there is no match (event.js 428-431)
directGroup(h3Text, sl) ==
  directGroupAt(h3Text, sl, MinOrZero({i \in 1..Len(sl) : starRaidsMatchEnd(sl, i) > 0}))

contextOf(h3Text, h3Lower, contextRaidType) ==
  IF includes(h3Lower, "appearing in") /\ includes(h3Lower, "raids")
  THEN orElse(appearingContext(appearingGroup(h3Text, h3Lower)), contextRaidType)
  ELSE IF includes(h3Lower, "star") /\ includes(h3Lower, "raids")
  THEN orElse(directGroup(h3Text, h3Lower), contextRaidType)
  ELSE IF includes(h3Lower, "primal") /\ includes(h3Lower, "raids")
  THEN "Primal Raids"
  ELSE IF includes(h3Lower, "mega") /\ includes(h3Lower, "raids")
  THEN "Mega Raids"
  ELSE IF /\ includes(h3Lower, "shadow")
          /\ includes(h3Lower, "raids")
          /\ ~includes(h3Lower, "star")
  THEN "Shadow Raids"
  ELSE contextRaidType

updateContextRaidType(h3Text, contextRaidType) ==
  contextOf(h3Text, toLowerCase(h3Text), contextRaidType)

\* ------------------------------------------------------------------------
\* Raid hour text: the time window and the featured names
\* ------------------------------------------------------------------------
\* '[\d:]+\s+[ap]'
clockStart(sl, p) == oneOf(sl, run(sl, run(sl, p, TimeChars), SpaceChars), {"a", "p"})

\* '[\d:]+\s+[ap]\.m\.' (dots required) or '[\d:]+\s+[ap]\.?m\.?' (dots optional)
clockEnd(sl, p, dotsOptional) ==
  IF dotsOptional
  THEN litOpt(sl, lit(sl, litOpt(sl, clockStart(sl, p), "."), "m"), ".")
  ELSE lit(sl, clockStart(sl, p), ".m.")

\* 'from (<clock>\s+to\s+<clock>)' matched at position i of sl
timeRangeEnd(sl, i, dotsOptional) ==
  clockEnd(sl, run(sl, lit(sl, run(sl, clockEnd(sl, lit(sl, i, "from "), dotsOptional),
                                   SpaceChars), "to"), SpaceChars),
           dotsOptional)

timeGroupAt(text, sl, i, dotsOptional) ==
  IF i > 0 THEN SubSeq(text, i + 5, timeRangeEnd(sl, i, dotsOptional) - 1) ELSE NULL

timeGroup(text, sl, dotsOptional) ==
  timeGroupAt(text, sl,
              MinOrZero({i \in 1..Len(sl) : timeRangeEnd(sl, i, dotsOptional) > 0}),
              dotsOptional)

\* text.match(/from (...)/i): group 1, NULL if there is no match
\* (event.js 479 with the dots required, 333 with the dots optional)
timeMatch(text, dotsOptional) == timeGroup(text, toLowerCase(text), dotsOptional)

\* timeMatch[1] + ' local time', or the time held before (event.js 334-336, 480-482)
localTime(group, before) == IF group # NULL THEN group \o " local time" ELSE before

\* '(?:\s+from|\s*\.)' at e
featuringStop(sl, e) ==
  \/ lit(sl, run(sl, e, SpaceChars), "from") > 0
  \/ lit(sl, runOpt(sl, e, SpaceChars), ".") > 0

\* text.match(/featuring\s+([^.]+?)(?:\s+from|\s*\.)/i): for the group
\* starting at g, the positions after the group where the lazy quantifier
\* may stop
featuringEnds(sl, g) ==
  {e \in (g + 1)..(Len(sl) + 1) :
     /\ \A j \in g..(e - 1) : charAt(sl, j) # "."
     /\ featuringStop(sl, e)}

\* the starts g of the group for a match that starts at i
featuringStarts(sl, i) ==
  IF startsWithAt(sl, "featuring", i)
  THEN {g \in (i + 10)..skipClass(sl, i + 9, SpaceChars) : featuringEnds(sl, g) # {}}
  ELSE {}

featuringGroupFrom(text, sl, g) == SubSeq(text, g, Min(featuringEnds(sl, g)) - 1)

featuringGroupAt(text, sl, i) ==
  IF i > 0 THEN featuringGroupFrom(text, sl, Max(featuringStarts(sl, i))) ELSE NULL

featuringGroup(text, sl) ==
  featuringGroupAt(text, sl, MinOrZero({i \in 1..Len(sl) : featuringStarts(sl, i) # {}}))

\* group 1 of that match, NULL if there is no match (event.js 339)
featuringMatch(text) == featuringGroup(text, toLowerCase(text))

\* '\s+and\s+' at i
andEnd(s, i) == run(s, lit(s, run(s, i, SpaceChars), "and"), SpaceChars)

\* the end of a match of /,|\s+and\s+/ at position i, 0 if none
delimiterEnd(s, i) == firstNonZero(lit(s, i, ","), andEnd(s, i))

\* pokemonText.split(/,|\s+and\s+/)
RECURSIVE splitAt(_, _)
splitAt(s, i) ==
  IF i = 0 THEN <<s>>
  ELSE <<SubSeq(s, 1, i - 1)>>
       \o splitAt(sliceFrom(s, delimiterEnd(s, i)),
                  MinOrZero({j \in 1..Len(sliceFrom(s, delimiterEnd(s, i))) :
                               delimiterEnd(sliceFrom(s, delimiterEnd(s, i)), j) > 0}))

split(s) == splitAt(s, MinOrZero({i \in 1..Len(s) : delimiterEnd(s, i) > 0}))

\* names.map(name => name.trim()).filter(name => name.length > 0)
RECURSIVE trimNonEmpty(_)
trimNonEmpty(names) ==
  IF names = <<>> THEN <<>>
  ELSE (IF trim(Head(names)) = "" THEN <<>> ELSE <<trim(Head(names))>>)
       \o trimNonEmpty(Tail(names))

\* the featured names of a raid hour text (event.js 340-348)
featuredNames(group, before) ==
  IF group # NULL THEN trimNonEmpty(split(group)) ELSE before

\* the ')' that close the '(' at o on its line
closings(name, o) ==
  {c \in (o + 1)..(skipClass(name, o, DotChars(name)) - 1) : charAt(name, c) = ")"}

stripParentheticalAt(name, o) ==
  IF o > 0
  THEN SubSeq(name, 1, skipBack(name, o - 1, SpaceChars))
       \o sliceFrom(name, Max(closings(name, o)) + 1)
  ELSE name

\* boss.name.replace(/\s*\(.*\)/, '')  (event.js 87)
stripParenthetical(name) ==
  stripParentheticalAt(name,
    MinOrZero({o \in 1..Len(name) : charAt(name, o) = "(" /\ closings(name, o) # {}}))

\* ------------------------------------------------------------------------
\* Rosters: parseBossFromElement, parseBossesFromList (event.js 219-242) and
\* the insertion of the bosses parsed into a boss list
\* ------------------------------------------------------------------------
\* the null parseBossFromElement returns for an item without name or image
NoBoss == [name |-> NULL, image |-> NULL, canBeShiny |-> FALSE, raidType |-> NULL]

\* bossElement: [name, image, shiny]; name is the innerHTML of the
\* .pkmn-name child and image the src of the .pkmn-list-img > img child,
\* NULL when the child is absent
\* parseBossFromElement, were it to store the phrase it is handed
parseBossFromElement_storesHeading(bossElement, raidType) ==
  IF bossElement.name = NULL \/ bossElement.image = NULL THEN NoBoss
  ELSE [name       |-> trim(bossElement.name),
        image      |-> bossElement.image,
        canBeShiny |-> bossElement.shiny,
        raidType   |-> raidType]

parseBossFromElement(bossElement, raidType) ==
  IF bossElement.name = NULL \/ bossElement.image = NULL THEN NoBoss
  ELSE [name       |-> trim(bossElement.name),
        image      |-> bossElement.image,
        canBeShiny |-> bossElement.shiny,
        raidType   |-> getTierFromRaidType(raidType)]

RECURSIVE parseBossesFromList(_, _)
parseBossesFromList(pokemonList, raidType) ==
  IF pokemonList = <<>> THEN <<>>
  ELSE (IF parseBossFromElement(Head(pokemonList), raidType) = NoBoss THEN <<>>
        ELSE <<parseBossFromElement(Head(pokemonList), raidType)>>)
       \o parseBossesFromList(Tail(pokemonList), raidType)

\* the duplicate test, were it never to find the name
hasBossNamed_never(list, name) == FALSE

\* list.some(existing => existing.name === name)
hasBossNamed(list, name) == \E i \in 1..Len(list) : list[i].name = name

\* bosses.forEach(boss => { if (!list.some(...)) list.push(boss) })
\* (event.js 318-323, 453-458, 462-466)
RECURSIVE addBosses(_, _)
addBosses(list, bosses) ==
  IF bosses = <<>> THEN list
  ELSE addBosses(IF hasBossNamed(list, Head(bosses).name) THEN list
                 ELSE Append(list, Head(bosses)),
                 Tail(bosses))

\* ------------------------------------------------------------------------
\* The schedule: lookup-or-create of a date entry (event.js 274-283, 394-403)
\* ------------------------------------------------------------------------
\* the lookup, were it never to find the date
findEntry_never(raidSchedule, date) == 0

\* raidSchedule.find(entry => entry.date === date): the index of the entry
\* found, 0 for undefined
findEntry(raidSchedule, date) ==
  IF \E i \in 1..Len(raidSchedule) : raidSchedule[i].date = date
  THEN Min({i \in 1..Len(raidSchedule) : raidSchedule[i].date = date})
  ELSE 0

newEntry(date) == [date |-> date, bosses |-> <<>>, raidHours |-> <<>>, bonuses |-> <<>>]

findOrCreate(raidSchedule, date) ==
  IF findEntry(raidSchedule, date) = 0
  THEN Append(raidSchedule, newEntry(date))
  ELSE raidSchedule

\* the index of the entry the lookup-or-create leaves as the current entry
entryIndex(raidSchedule, date) ==
  IF findEntry(raidSchedule, date) = 0
  THEN Len(raidSchedule) + 1
  ELSE findEntry(raidSchedule, date)

\* array.filter(keep), for a predicate given as the set of the values kept
RECURSIVE filter(_, _)
filter(list, Keep) ==
  IF list = <<>> THEN <<>>
  ELSE (IF Head(list) \in Keep THEN <<Head(list)>> ELSE <<>>) \o filter(Tail(list), Keep)

elements(list) == {list[i] : i \in 1..Len(list)}

\* ------------------------------------------------------------------------
\* The post-processing passes
\* ------------------------------------------------------------------------
\* boss.raidType ? boss.raidType.toLowerCase() : ''
typeLower(boss) == IF truthy(boss.raidType) THEN toLowerCase(boss.raidType) ELSE ""

\* entry.bosses.filter(boss => raidTypesWithRaidHour.some(keyword =>
\*   bossTypeLower.includes(keyword)))  (event.js 531-536)
raidHourBossesOf(entry, globalInfo) ==
  filter(entry.bosses,
         {boss \in elements(entry.bosses) :
            \E k \in 1..Len(globalInfo.raidTypesWithRaidHour) :
               includes(typeLower(boss), globalInfo.raidTypesWithRaidHour[k])})

\* the pass that ends processRaidsSection (event.js 526-546)
distributeRaidHours(raidSchedule, globalInfo) ==
  IF truthy(globalInfo.raidHourTime)
  THEN [d \in 1..Len(raidSchedule) |->
          IF /\ raidSchedule[d].raidHours = <<>>
             /\ raidHourBossesOf(raidSchedule[d], globalInfo) # <<>>
          THEN [raidSchedule[d] EXCEPT !.raidHours =
                  <<[time   |-> globalInfo.raidHourTime,
                     bosses |-> raidHourBossesOf(raidSchedule[d], globalInfo)]>>]
          ELSE raidSchedule[d]]
  ELSE raidSchedule

\* day.bosses.filter(boss => typeLower.includes('tier 5') ||
\*   typeLower.includes('five'))  (event.js 63-66)
fiveStarBossesOf(day) ==
  filter(day.bosses,
         {boss \in elements(day.bosses) :
            includes(typeLower(boss), "tier 5") \/ includes(typeLower(boss), "five")})

\* the pass, were it not to test day.raidHours.length === 0
distributeFiveStarRaidHours_withoutGuard(raidSchedule, globalInfo) ==
  IF /\ truthy(globalInfo.raidHourTime)
     /\ globalInfo.raidHourSectionId = "appearing-in-5-star-raids"
  THEN [d \in 1..Len(raidSchedule) |->
          IF fiveStarBossesOf(raidSchedule[d]) # <<>>
          THEN [raidSchedule[d] EXCEPT !.raidHours =
                  Append(@, [time   |-> globalInfo.raidHourTime,
                             bosses |-> fiveStarBossesOf(raidSchedule[d])])]
          ELSE raidSchedule[d]]
  ELSE raidSchedule

\* the pass, were it the keyword pass of processRaidsSection run once more
\* after all traversal
distributeFiveStarRaidHours_byKeywords(raidSchedule, globalInfo) ==
  distributeRaidHours(raidSchedule, globalInfo)

\* the pass of get for the 'appearing-in-5-star-raids' section (event.js 58-76)
distributeFiveStarRaidHours(raidSchedule, globalInfo) ==
  IF /\ truthy(globalInfo.raidHourTime)
     /\ globalInfo.raidHourSectionId = "appearing-in-5-star-raids"
  THEN [d \in 1..Len(raidSchedule) |->
          IF /\ raidSchedule[d].raidHours = <<>>
             /\ fiveStarBossesOf(raidSchedule[d]) # <<>>
          THEN [raidSchedule[d] EXCEPT !.raidHours =
                  <<[time   |-> globalInfo.raidHourTime,
                     bosses |-> fiveStarBossesOf(raidSchedule[d])]>>]
          ELSE raidSchedule[d]]
  ELSE raidSchedule

\* day.bosses.some(boss => bossNameVariants.some(variant =>
\*   noteLower.includes(variant)))  (event.js 84-90)
\* the test, were it made with the full names of the bosses alone
relevantBonus_fullNameOnly(day, note) ==
  \E b \in 1..Len(day.bosses) :
     includes(toLowerCase(note), toLowerCase(day.bosses[b].name))

relevantBonus(day, note) ==
  \E b \in 1..Len(day.bosses) :
     \/ includes(toLowerCase(note), toLowerCase(day.bosses[b].name))
     \/ includes(toLowerCase(note), toLowerCase(stripParenthetical(day.bosses[b].name)))

\* the bonus pass of get (event.js 78-96)
distributeBonuses(raidSchedule, specialNotes) ==
  [d \in 1..Len(raidSchedule) |->
     [raidSchedule[d] EXCEPT !.bonuses =
        @ \o filter(specialNotes,
                    {note \in elements(specialNotes) : relevantBonus(raidSchedule[d], note)})]]

\* the bosses of a window, were they made from the featured names
featuredBossesOf_fromNames(dateEntry, raidHourBossNames) ==
  [n \in 1..Len(raidHourBossNames) |->
     [name |-> raidHourBossNames[n], image |-> NULL, canBeShiny |-> FALSE,
      raidType |-> NULL]]

\* the window processDayRaidSection appends (event.js 354-369)
\* raidHourBosses: the bosses of the entry a featured name resolves to
featuredBossesOf(dateEntry, raidHourBossNames) ==
  filter(dateEntry.bosses,
         {boss \in elements(dateEntry.bosses) :
            \E n \in 1..Len(raidHourBossNames) :
               includes(toLowerCase(boss.name), toLowerCase(raidHourBossNames[n]))})

\* the window, were it appended without a raid hour time
appendDayRaidHour_withoutTime(dateEntry, raidHourTime, raidHourBossNames) ==
  IF /\ Len(raidHourBossNames) > 0
     /\ featuredBossesOf(dateEntry, raidHourBossNames) # <<>>
  THEN [dateEntry EXCEPT !.raidHours =
          Append(@, [time   |-> raidHourTime,
                     bosses |-> featuredBossesOf(dateEntry, raidHourBossNames)])]
  ELSE dateEntry

appendDayRaidHour(dateEntry, raidHourTime, raidHourBossNames) ==
  IF /\ truthy(raidHourTime)
     /\ Len(raidHourBossNames) > 0
     /\ featuredBossesOf(dateEntry, raidHourBossNames) # <<>>
  THEN [dateEntry EXCEPT !.raidHours =
          Append(@, [time   |-> raidHourTime,
                     bosses |-> featuredBossesOf(dateEntry, raidHourBossNames)])]
  ELSE dateEntry

\* pushes keyword unless the list includes it (event.js 486-505)
pushOnce(list, keyword) ==
  IF keyword \in elements(list) THEN list ELSE Append(list, keyword)

\* ------------------------------------------------------------------------
\* The documents: the nodes a section can hold
\* ------------------------------------------------------------------------
H3(text) == [tagName |-> "H3", className |-> "", textContent |-> text, items |-> <<>>]

Paragraph(text) == [tagName |-> "P", className |-> "", textContent |-> text, items |-> <<>>]

Roster(items) ==
  [tagName |-> "DIV", className |-> "pkmn-list-flex", textContent |-> "", items |-> items]

OtherNode == [tagName |-> "DIV", className |-> "", textContent |-> "", items |-> <<>>]

Item(name, image, shiny) == [name |-> name, image |-> image, shiny |-> shiny]

Rosters ==
  { <<Item("Mewtwo", "mewtwo.png", TRUE), Item("Kyurem (Black)", "kyurem.png", FALSE)>>,
    <<Item(" Mewtwo ", "mewtwo2.png", FALSE), Item("Groudon", NULL, FALSE),
      Item(NULL, "unknown.png", FALSE), Item("Groudon", "groudon.png", FALSE)>> }

SectionHeadings ==
  { "Five-Star Raids: Tuesday, November 11",
    "Mega Raids: Tuesday, November 11",
    "Tuesday, November 11",
    "Appearing in 5-Star Raids (Saturday)",
    " Mega Raids ",
    "Schedule" }

SectionParagraphs ==
  { "Raid Hour: Five-Star and Mega Raids from 5:00 p.m. to 6:00 p.m. local time.",
    "Mega Raid Hour all evening.",
    "Defeat Kyurem to earn Fusion Energy." }

\* the paragraphs of the 'appearing in 5-star raids' section: its raid hour
\* is at another time than the one of the 'raids' section
FiveStarParagraphs ==
  { "Raid Hour: Five-Star and Mega Raids from 11:00 a.m. to 12:00 p.m. local time.",
    "Mega Raid Hour all evening.",
    "Defeat Kyurem to earn Fusion Energy." }

\* the elements of the section of an anchor
SectionElements(sectionId) ==
  {H3(t) : t \in SectionHeadings}
    \cup {Paragraph(t) : t \in IF sectionId = "appearing-in-5-star-raids"
                               THEN FiveStarParagraphs ELSE SectionParagraphs}
    \cup {Roster(r) : r \in Rosters} \cup {OtherNode}

DayHeadings == { "Five-Star Raids", "Mega Raids", "Raid Hours", "Bonuses" }

DayParagraphs ==
  { "Raid Hour featuring Mewtwo and Kyurem from 6:00 p.m. to 7:00 p.m. local time.",
    "Raid Hour featuring Groudon." }

DayElements ==
  {H3(t) : t \in DayHeadings} \cup {Paragraph(t) : t \in DayParagraphs}
    \cup {Roster(r) : r \in Rosters} \cup {OtherNode}

\* the texts of the H2 headings of a page
H2Texts ==
  { "Tuesday, November 11: Kanto",
    "Friday, February 27: Unova (Black Kyurem)",
    "Tuesday, November 11 - Kanto",
    "Bonuses" }

\* ------------------------------------------------------------------------
\* The backup array: the entries of the parsed events.min.json
\* ------------------------------------------------------------------------
EventId == "into-the-wild"

OtherId == "road-to-kalos"

\* a null (or absent) extraData
JsNull == [jsnull |-> TRUE]

Obj(Keys) == [k \in Keys |-> "backup " \o k]

BackupEntries ==
  { [eventID |-> EventId, extraData |-> JsNull],
    [eventID |-> EventId, extraData |-> Obj({"generic"})],
    [eventID |-> EventId, extraData |-> Obj({"generic", "raidSchedule"})],
    [eventID |-> EventId, extraData |-> Obj({"generic", "raidSchedule", "raidbattles"})],
    [eventID |-> EventId, extraData |-> [event |-> Obj({"raidSchedule", "raidbattles"})]],
    [eventID |-> EventId, extraData |-> [event |-> Obj({})]],
    [eventID |-> EventId, extraData |-> [event |-> Obj({"raidSchedule", "spawns"})]],
    [eventID |-> EventId, extraData |-> [event |-> Obj({"spawns"})]],
    [eventID |-> OtherId, extraData |-> Obj({"generic", "raidbattles"})] }

\* ------------------------------------------------------------------------
\* One element of processRaidsSection (event.js 381-524)
\* ------------------------------------------------------------------------
MinNoteLength == 10

NoSection ==
  [sectionId |-> NULL, contextRaidType |-> NULL, currentDate |-> NULL,
   currentRaidType |-> NULL, currentDateEntry |-> 0]

\* the locals of processRaidsSection at its start (event.js 376-379)
startSection(sectionId) ==
  [NoSection EXCEPT
     !.sectionId = sectionId,
     !.contextRaidType =
        IF sectionId = "appearing-in-5-star-raids" THEN "Five-Star Raids" ELSE NULL]

isHeading(element) == element.tagName = "H3" /\ element.textContent # ""

isRoster(element) == element.className = "pkmn-list-flex"

\* the H3 branch, were a heading that is no date header to leave the active
\* date as it is
headingLocals_keepsDate(sec, raidSchedule, h3Text, parsedHeader) ==
  IF parsedHeader # NoHeader
  THEN [sec EXCEPT !.currentDate      = parsedHeader.date,
                   !.currentRaidType  = parsedHeader.raidType,
                   !.currentDateEntry = entryIndex(raidSchedule, parsedHeader.date)]
  ELSE [sec EXCEPT !.contextRaidType  = updateContextRaidType(h3Text, @)]

\* the locals after the H3 branch (event.js 383-446)
headingLocals(sec, raidSchedule, h3Text, parsedHeader) ==
  IF parsedHeader # NoHeader
  THEN [sec EXCEPT !.currentDate      = parsedHeader.date,
                   !.currentRaidType  = parsedHeader.raidType,
                   !.currentDateEntry = entryIndex(raidSchedule, parsedHeader.date)]
  ELSE [sec EXCEPT !.currentDate      = NULL,
                   !.currentRaidType  = NULL,
                   !.currentDateEntry = 0,
                   !.contextRaidType  = updateContextRaidType(h3Text, @)]

sectionHeading(sec, raidSchedule, element) ==
  IF isHeading(element)
  THEN headingLocals(sec, raidSchedule, trim(element.textContent),
                     parseRaidHeader(trim(element.textContent), sec.contextRaidType))
  ELSE sec

\* the schedule after the H3 branch (event.js 393-403)
headingSchedule(raidSchedule, parsedHeader) ==
  IF parsedHeader # NoHeader
  THEN findOrCreate(raidSchedule, parsedHeader.date)
  ELSE raidSchedule

scheduleHeading(sec, raidSchedule, element) ==
  IF isHeading(element)
  THEN headingSchedule(raidSchedule,
                       parseRaidHeader(trim(element.textContent), sec.contextRaidType))
  ELSE raidSchedule

\* the record after the roster branch, entered with the locals and the
\* schedule the H3 branch left (event.js 449-468)
sectionRoster(sec, eventData, element) ==
  IF ~isRoster(element) THEN eventData
  ELSE IF truthy(sec.currentDate) /\ sec.currentDateEntry # 0
  THEN [eventData EXCEPT !.raidSchedule[sec.currentDateEntry].bosses =
          addBosses(@, parseBossesFromList(element.items, sec.currentRaidType))]
  ELSE [eventData EXCEPT !.raidbattles =
          addBosses(@, parseBossesFromList(element.items, sec.contextRaidType))]

\* the keywords of a raid hour text pushed on the list (event.js 484-505)
raidHourKeywords(list, raidHourLower) ==
  LET k1 == IF includes(raidHourLower, "five-star") \/ includes(raidHourLower, "5-star")
            THEN pushOnce(list, "five-star") ELSE list
      k2 == IF includes(raidHourLower, "shadow") THEN pushOnce(k1, "shadow") ELSE k1
      k3 == IF includes(raidHourLower, "mega") THEN pushOnce(k2, "mega") ELSE k2
  IN  IF includes(raidHourLower, "primal") THEN pushOnce(k3, "primal") ELSE k3

\* the raid hour branch (event.js 470-507)
sectionRaidHour(sec, globalInfo, element) ==
  IF element.tagName = "P" /\ includes(element.textContent, "Raid Hour")
  THEN [globalInfo EXCEPT
          !.raidHourSectionId = sec.sectionId,
          !.raidHourTime = localTime(timeMatch(trim(element.textContent), FALSE), @),
          !.raidTypesWithRaidHour =
             raidHourKeywords(@, toLowerCase(trim(element.textContent)))]
  ELSE globalInfo

\* the bonus note branch (event.js 509-523)
sectionNote(globalInfo, element) ==
  LET noteTextLower == toLowerCase(element.textContent)
  IN  IF /\ element.tagName = "P"
         /\ \/ includes(noteTextLower, "fusion energy")
            \/ includes(noteTextLower, "mega energy")
            \/ includes(noteTextLower, "primal energy")
            \/ includes(noteTextLower, "adventure effect move")
         /\ Len(trim(element.textContent)) > MinNoteLength
      THEN [globalInfo EXCEPT !.specialNotes = Append(@, trim(element.textContent))]
      ELSE globalInfo

\* ------------------------------------------------------------------------
\* One element of processDayRaidSection (event.js 285-352)
\* ------------------------------------------------------------------------
NoDay ==
  [dateEntry |-> 0, currentRaidType |-> NULL, raidHourTime |-> NULL,
   raidHourBossNames |-> <<>>, inRaidHourSection |-> FALSE]

\* dayHeader.split(':')[0].trim()  (event.js 265)
baseDateOf(dayHeader) ==
  LET C == {c \in 1..Len(dayHeader) : charAt(dayHeader, c) = ":"}
  IN  trim(IF C = {} THEN dayHeader ELSE SubSeq(dayHeader, 1, Min(C) - 1))

\* the locals after the H3 branch (event.js 287-313)
dayHeading(day, element) ==
  LET h3Text  == trim(element.textContent)
      h3Lower == toLowerCase(h3Text)
  IN  IF ~isHeading(element) THEN day
      ELSE IF includes(h3Lower, "raid hour")
      THEN [day EXCEPT !.inRaidHourSection = TRUE, !.currentRaidType = NULL]
      ELSE IF includes(h3Lower, "star") /\ includes(h3Lower, "raids")
      THEN [day EXCEPT !.currentRaidType = h3Text, !.inRaidHourSection = FALSE]
      ELSE IF includes(h3Lower, "primal") /\ includes(h3Lower, "raids")
      THEN [day EXCEPT !.currentRaidType = "Primal Raids", !.inRaidHourSection = FALSE]
      ELSE IF includes(h3Lower, "mega") /\ includes(h3Lower, "raids")
      THEN [day EXCEPT !.currentRaidType = "Mega Raids", !.inRaidHourSection = FALSE]
      ELSE IF includes(h3Lower, "shadow") /\ includes(h3Lower, "raids")
      THEN [day EXCEPT !.currentRaidType = "Shadow Raids", !.inRaidHourSection = FALSE]
      ELSE day

\* the roster branch, were it entered whatever the sub-heading before it
dayRoster_inAnyState(day, raidSchedule, element) ==
  IF isRoster(element)
  THEN [raidSchedule EXCEPT ![day.dateEntry].bosses =
          addBosses(@, parseBossesFromList(element.items, day.currentRaidType))]
  ELSE raidSchedule

\* the schedule after the roster branch (event.js 316-324)
dayRoster(day, raidSchedule, element) ==
  IF isRoster(element) /\ truthy(day.currentRaidType) /\ ~day.inRaidHourSection
  THEN [raidSchedule EXCEPT ![day.dateEntry].bosses =
          addBosses(@, parseBossesFromList(element.items, day.currentRaidType))]
  ELSE raidSchedule

\* the locals after the raid hour paragraph branch (event.js 327-351)
dayRaidHour(day, element) ==
  IF /\ element.tagName = "P"
     /\ day.inRaidHourSection
     /\ includes(toLowerCase(trim(element.textContent)), "raid hour")
  THEN [day EXCEPT
          !.raidHourTime = localTime(timeMatch(trim(element.textContent), TRUE), @),
          !.raidHourBossNames =
             featuredNames(featuringMatch(trim(element.textContent)), @)]
  ELSE day

\* ------------------------------------------------------------------------
\* The state of one call get(url, id, bkp)  (event.js 13-147)
\* ------------------------------------------------------------------------
VARIABLES
  pc,           \* the position of the call
  dom,          \* the outcome of JSDOM.fromURL: "pending", "rejected", "loaded"
                \* (a page with a .page-content element), "loadedBare" (a page
                \* without one)
  eventData,    \* the record under construction
  globalInfo,   \* the parse context of the call
  sec,          \* the locals of processRaidsSection
  day,          \* the locals of processDayRaidSection
  count,        \* the elements of the page consumed so far
  daySections,  \* the day sections processed so far
  bkp,          \* the entries of the backup array the catch handler has read
  writes,       \* the fs.writeFile calls started, each with its completion
  resolved,     \* the promise get returned is resolved
  tierInput,    \* a text handed to getTierFromRaidType
  tierResult,   \* what getTierFromRaidType returned for tierInput
  tierAgain,    \* what getTierFromRaidType returned for tierResult
  headerText,   \* a text handed to parseRaidHeader
  headerContext,\* the contextRaidType handed to parseRaidHeader with it
  headerResult, \* what parseRaidHeader returned for them
  siblings,     \* the element siblings that follow an H2 handed to
                \* collectSectionElements
  collected,    \* what collectSectionElements returned for it
  calls,        \* two calls of get with different ids: the position, the page
                \* and the locals of each
  files         \* the files of files/temp, by the id in their name

getVars ==
  <<pc, dom, eventData, globalInfo, sec, day, count, daySections, bkp, writes, resolved>>

tierVars == <<tierInput, tierResult, tierAgain>>

headerVars == <<headerText, headerContext, headerResult>>

collectVars == <<siblings, collected>>

pairVars == <<calls, files>>

\* the variables of the functions checked on their own and of the pair of calls
otherVars == <<tierVars, headerVars, collectVars, pairVars>>

vars == <<getVars, otherVars>>

InitGet ==
  /\ pc = "fetch"
  /\ dom = "pending"
  /\ eventData = [raidSchedule |-> <<>>, raidbattles |-> <<>>]
  /\ globalInfo = [raidHourTime |-> NULL, raidHourSectionId |-> NULL,
                   raidTypesWithRaidHour |-> <<>>, specialNotes |-> <<>>]
  /\ sec = NoSection
  /\ day = NoDay
  /\ count = 0
  /\ daySections = 0
  /\ bkp = <<>>
  /\ writes = <<>>
  /\ resolved = FALSE

\* no call of getTierFromRaidType has returned
Unclassified == "<unclassified>"

InitTier ==
  /\ tierInput = ""
  /\ tierResult = Unclassified
  /\ tierAgain = Unclassified

\* no call of parseRaidHeader has returned
Unparsed == [raidType |-> "<unparsed>", date |-> "<unparsed>"]

InitHeader ==
  /\ headerText = ""
  /\ headerContext = NULL
  /\ headerResult = Unparsed

\* no call of collectSectionElements has returned
NotCollected == <<[tagName |-> "<not collected>", id |-> 0]>>

InitCollect ==
  /\ siblings = <<>>
  /\ collected = NotCollected

CallIds == {EventId, OtherId}

\* no file of that name has been written
NoFile == [id |-> NULL, type |-> NULL, data |-> NULL]

\* no call of the pair has been made
InitPair ==
  /\ calls = [id \in CallIds |-> [pc |-> "idle"]]
  /\ files = [id \in CallIds |-> NoFile]

Init == InitGet /\ InitTier /\ InitHeader /\ InitCollect /\ InitPair

\* JSDOM.fromURL resolves and the page has a .page-content element
FetchLoaded ==
  /\ pc = "fetch"
  /\ dom' = "loaded"
  /\ pc' = "raids"
  /\ UNCHANGED <<eventData, globalInfo, sec, day, count, daySections, bkp, writes,
                 resolved, otherVars>>

\* JSDOM.fromURL resolves and the page has no .page-content element:
\* pageContent is null and pageContent.querySelector throws (event.js 22, 33)
FetchLoadedNoPageContent ==
  /\ pc = "fetch"
  /\ dom' = "loadedBare"
  /\ pc' = "catch"
  /\ UNCHANGED <<eventData, globalInfo, sec, day, count, daySections, bkp, writes,
                 resolved, otherVars>>

\* JSDOM.fromURL rejects
FetchRejected ==
  /\ pc = "fetch"
  /\ dom' = "rejected"
  /\ pc' = "catch"
  /\ UNCHANGED <<eventData, globalInfo, sec, day, count, daySections, bkp, writes,
                 resolved, otherVars>>

\* the page has no h2#raids, or no h2#appearing-in-5-star-raids (event.js 34, 40)
AnchorAbsent ==
  /\ pc \in {"raids", "fiveStar"}
  /\ pc' = IF pc = "raids" THEN "fiveStar" ELSE "days"
  /\ UNCHANGED <<dom, eventData, globalInfo, sec, day, count, daySections, bkp, writes,
                 resolved, otherVars>>

\* processRaidsSection is entered for the anchor found (event.js 35-36, 41-42)
SectionStart ==
  /\ pc \in {"raids", "fiveStar"}
  /\ sec' = startSection(IF pc = "raids" THEN "raids" ELSE "appearing-in-5-star-raids")
  /\ pc' = "section"
  /\ UNCHANGED <<dom, eventData, globalInfo, day, count, daySections, bkp, writes,
                 resolved, otherVars>>

\* the next element of the section (event.js 381-524)
SectionElement(element) ==
  /\ pc = "section"
  /\ count < MaxElems
  /\ sec' = sectionHeading(sec, eventData.raidSchedule, element)
  /\ eventData' =
       sectionRoster(sec',
                     [eventData EXCEPT
                        !.raidSchedule = scheduleHeading(sec, @, element)],
                     element)
  /\ globalInfo' = sectionNote(sectionRaidHour(sec, globalInfo, element), element)
  /\ count' = count + 1
  /\ UNCHANGED <<pc, dom, day, daySections, bkp, writes, resolved, otherVars>>

\* the section has no further element: the raid hour pass (event.js 526-546)
SectionEnd ==
  /\ pc = "section"
  /\ eventData' = [eventData EXCEPT
                     !.raidSchedule = distributeRaidHours(@, globalInfo)]
  /\ pc' = IF sec.sectionId = "raids" THEN "fiveStar" ELSE "days"
  /\ sec' = NoSection
  /\ UNCHANGED <<dom, globalInfo, day, count, daySections, bkp, writes, resolved, otherVars>>

\* the next H2 of the page is a day heading: processDayRaidSection is
\* entered (event.js 48-55, 263-283)
DaySectionStart(h2Text) ==
  /\ pc = "days"
  /\ daySections < MaxDaySections
  /\ dayPatternTest(trim(h2Text))
  /\ LET baseDate == baseDateOf(trim(h2Text))
     IN  /\ eventData' = [eventData EXCEPT !.raidSchedule = findOrCreate(@, baseDate)]
         /\ day' = [NoDay EXCEPT !.dateEntry = entryIndex(eventData.raidSchedule, baseDate)]
  /\ daySections' = daySections + 1
  /\ pc' = "daySection"
  /\ UNCHANGED <<dom, globalInfo, sec, count, bkp, writes, resolved, otherVars>>

\* the next element of the day section (event.js 285-352)
DayElement(element) ==
  /\ pc = "daySection"
  /\ count < MaxElems
  /\ day' = dayRaidHour(dayHeading(day, element), element)
  /\ eventData' =
       [eventData EXCEPT !.raidSchedule = dayRoster(dayHeading(day, element), @, element)]
  /\ count' = count + 1
  /\ UNCHANGED <<pc, dom, globalInfo, sec, daySections, bkp, writes, resolved, otherVars>>

\* the day section has no further element: its raid hour window (event.js 354-369)
DaySectionEnd ==
  /\ pc = "daySection"
  /\ eventData' = [eventData EXCEPT !.raidSchedule[day.dateEntry] =
                     appendDayRaidHour(@, day.raidHourTime, day.raidHourBossNames)]
  /\ day' = NoDay
  /\ pc' = "days"
  /\ UNCHANGED <<dom, globalInfo, sec, count, daySections, bkp, writes, resolved, otherVars>>

\* the page has no further day heading: the 5-star raid hour pass (event.js 58-76)
DistributeFiveStar ==
  /\ pc = "days"
  /\ eventData' = [eventData EXCEPT
                     !.raidSchedule = distributeFiveStarRaidHours(@, globalInfo)]
  /\ pc' = "bonuses"
  /\ UNCHANGED <<dom, globalInfo, sec, day, count, daySections, bkp, writes, resolved,
                 otherVars>>

\* the bonus pass (event.js 78-96)
DistributeBonuses ==
  /\ pc = "bonuses"
  /\ eventData' = [eventData EXCEPT
                     !.raidSchedule = distributeBonuses(@, globalInfo.specialNotes)]
  /\ pc' = "write"
  /\ UNCHANGED <<dom, globalInfo, sec, day, count, daySections, bkp, writes, resolved,
                 otherVars>>

\* a started fs.writeFile of JSON.stringify({id, type: 'event', data})
writeOf(data) == [id |-> EventId, type |-> "event", data |-> data, done |-> FALSE]

\* the record is written and the then-handler returns (event.js 98)
WriteRecord ==
  /\ pc = "write"
  /\ writes' = Append(writes, writeOf(eventData))
  /\ pc' = "returned"
  /\ UNCHANGED <<dom, eventData, globalInfo, sec, day, count, daySections, bkp, resolved,
                 otherVars>>

\* the fallback data, were an absent raidbattles to default to an empty array
fallbackDataOf_defaultsRaidbattles(extraData) ==
  IF "event" \in DOMAIN extraData THEN extraData["event"]
  ELSE [k \in (DOMAIN extraData \cap {"raidSchedule"}) \cup {"raidbattles"} |->
          IF k \in DOMAIN extraData THEN extraData[k] ELSE <<>>]

\* what the catch handler takes from a backup entry (event.js 111-124)
fallbackDataOf(extraData) ==
  IF "event" \in DOMAIN extraData THEN extraData["event"]
  ELSE [k \in DOMAIN extraData \cap {"raidSchedule", "raidbattles"} |-> extraData[k]]

\* one iteration of the loop of the catch handler (event.js 108-143)
CatchEntry(entry) ==
  /\ pc = "catch"
  /\ Len(bkp) < MaxBkp
  /\ bkp' = Append(bkp, entry)
  /\ writes' = IF /\ entry.eventID = EventId
                  /\ entry.extraData # JsNull
                  /\ DOMAIN fallbackDataOf(entry.extraData) # {}
               THEN Append(writes, writeOf(fallbackDataOf(entry.extraData)))
               ELSE writes
  /\ UNCHANGED <<pc, dom, eventData, globalInfo, sec, day, count, daySections, resolved,
                 otherVars>>

\* the end of the loop, were the catch handler not to call resolve
CatchEnd_withoutResolve ==
  /\ pc = "catch"
  /\ pc' = "returned"
  /\ UNCHANGED <<dom, eventData, globalInfo, sec, day, count, daySections, bkp, writes,
                 resolved, otherVars>>

\* the loop is over: resolve() and the catch handler returns (event.js 144)
CatchEnd ==
  /\ pc = "catch"
  /\ resolved' = TRUE
  /\ pc' = "returned"
  /\ UNCHANGED <<dom, eventData, globalInfo, sec, day, count, daySections, bkp, writes,
                 otherVars>>

\* a write completes, with or without error, and its callback resolves
\* (event.js 98-103, 134-139); callbacks run when no handler is running
WriteCallback(w) ==
  /\ pc = "returned"
  /\ ~writes[w].done
  /\ writes' = [writes EXCEPT ![w].done = TRUE]
  /\ resolved' = TRUE
  /\ UNCHANGED <<pc, dom, eventData, globalInfo, sec, day, count, daySections, bkp,
                 otherVars>>

Next ==
  \/ FetchLoaded
  \/ FetchLoadedNoPageContent
  \/ FetchRejected
  \/ AnchorAbsent
  \/ SectionStart
  \/ \E element \in SectionElements(sec.sectionId) : SectionElement(element)
  \/ SectionEnd
  \/ \E h2Text \in H2Texts : DaySectionStart(h2Text)
  \/ \E element \in DayElements : DayElement(element)
  \/ DaySectionEnd
  \/ DistributeFiveStar
  \/ DistributeBonuses
  \/ WriteRecord
  \/ \E entry \in BackupEntries : CatchEntry(entry)
  \/ CatchEnd
  \/ \E w \in 1..Len(writes) : WriteCallback(w)

Spec == Init /\ [][Next]_vars

\* the steps that do not read a further element of the page, a further day
\* heading or a further entry of the backup
Advance ==
  \/ FetchLoaded
  \/ FetchLoadedNoPageContent
  \/ FetchRejected
  \/ AnchorAbsent
  \/ SectionStart
  \/ SectionEnd
  \/ DaySectionEnd
  \/ DistributeFiveStar
  \/ DistributeBonuses
  \/ WriteRecord
  \/ CatchEnd
  \/ \E w \in 1..Len(writes) : WriteCallback(w)

\* JSDOM.fromURL settles, a loop over the elements of a finite page or over
\* the entries of a finite array ends, a handler runs to its end, and the
\* event loop runs the callback of every write started
FairSpec == Spec /\ WF_vars(Advance)

\* ------------------------------------------------------------------------
\* getTierFromRaidType on its own: the texts it is handed are made of the
\* words of the raid headings
\* ------------------------------------------------------------------------
TierFragments ==
  { "One-Star ", "1-star ", "Three-Star ", "3-Star ", "Five-Star ", "5-Star ",
    "Six-Star ", "6-star ", "Mega ", "Primal ", "Shadow ", "Raids", "Tier 5 " }

RECURSIVE TierTexts(_)
TierTexts(n) ==
  IF n = 0 THEN {""}
  ELSE TierTexts(n - 1) \cup {t \o f : t \in TierTexts(n - 1), f \in TierFragments}

TierInputs == TierTexts(MaxFragments) \cup {NULL}

InitClassifier ==
  /\ InitGet
  /\ tierInput \in TierInputs
  /\ tierResult = Unclassified
  /\ tierAgain = Unclassified
  /\ InitHeader
  /\ InitCollect
  /\ InitPair

\* getTierFromRaidType(raidType) with the text of a heading
Classify ==
  /\ tierResult = Unclassified
  /\ tierResult' = getTierFromRaidType(tierInput)
  /\ UNCHANGED <<getVars, tierInput, tierAgain, headerVars, collectVars, pairVars>>

\* getTierFromRaidType(boss.raidType) with the label a boss stores
Reclassify ==
  /\ tierResult # Unclassified
  /\ tierAgain = Unclassified
  /\ tierAgain' = getTierFromRaidType(tierResult)
  /\ UNCHANGED <<getVars, tierInput, tierResult, headerVars, collectVars, pairVars>>

NextClassifier == Classify \/ Reclassify

SpecTier == InitClassifier /\ [][NextClassifier]_vars

\* ------------------------------------------------------------------------
\* parseRaidHeader on its own: the texts it is handed are the trimmed texts
\* of H3 headings, put together from what stands before a colon, the
\* colon, and what stands after it
\* ------------------------------------------------------------------------
HeaderTypes ==
  { "Five-Star Raids", "Five-Star Shadow Raids", "Tuesday, November 11",
    "Appearing in 5-Star Raids (Saturday)" }

HeaderColons == { ":", ": ", " :  " }

HeaderDates ==
  { "Tuesday, November 11", "monday, november 10", "Saturday, March  7 (evening)" }

\* texts that start with a date and hold no colon
HeaderDateTails == { "", " and later", "!" }

HeaderTiers == { "5-Star Raids", "3-star shadow raids", "Five-Star Raid" }

HeaderWeekdays == { "Saturday", "sunday" }

HeaderLeads == { "Appearing in ", "Now appearing in  " }

\* texts of none of the three formats
HeaderOthers ==
  { "Schedule", "Mega Raids", "Raid Hour: every evening", "Appearing in 5-Star Raids",
    ": Tuesday, November 11", "November 11", "Appearing in Raids (Saturday)" }

HeaderTexts ==
  {t \o c \o d : t \in HeaderTypes, c \in HeaderColons, d \in HeaderDates}
  \cup {d \o e : d \in {"Tuesday, November 11", "monday, november 10"},
                 e \in HeaderDateTails}
  \cup {l \o t \o " (" \o w \o ")" : l \in HeaderLeads, t \in HeaderTiers,
                                      w \in HeaderWeekdays}
  \cup HeaderOthers

HeaderContexts == { NULL, "", "Mega Raids" }

InitParser ==
  /\ InitGet
  /\ InitTier
  /\ headerText \in HeaderTexts
  /\ headerContext \in HeaderContexts
  /\ headerResult = Unparsed
  /\ InitCollect
  /\ InitPair

\* parseRaidHeader(h3Text, contextRaidType)  (event.js 391)
ParseHeader ==
  /\ headerResult = Unparsed
  /\ headerResult' = parseRaidHeader(headerText, headerContext)
  /\ UNCHANGED <<getVars, tierVars, headerText, headerContext, collectVars, pairVars>>

NextParser == ParseHeader

SpecHeader == InitParser /\ [][NextParser]_vars

\* ------------------------------------------------------------------------
\* collectSectionElements on its own: the element siblings that follow the
\* start H2, each with its tag and its place among them
\* ------------------------------------------------------------------------
\* the element siblings that follow the start heading
MaxSiblings == 3

SiblingTags == { "H1", "H2", "H3", "P", "DIV" }

SiblingLists ==
  UNION {{[i \in 1..n |-> [tagName |-> tags[i], id |-> i]] :
            tags \in [1..n -> SiblingTags]} : n \in 0..MaxSiblings}

\* the loop, were it to end at a heading of the level of the start heading
\* or of a higher level
RECURSIVE collectFrom_untilHeading(_, _, _)
collectFrom_untilHeading(list, current, pushed) ==
  IF current <= Len(list) /\ list[current].tagName \notin {"H1", "H2"}
  THEN collectFrom_untilHeading(list, current + 1, Append(pushed, list[current]))
  ELSE pushed

\* while (current && current.tagName !== 'H2') { elements.push(current);
\* current = current.nextElementSibling }  (event.js 251-254)
RECURSIVE collectFrom(_, _, _)
collectFrom(list, current, pushed) ==
  IF current <= Len(list) /\ list[current].tagName # "H2"
  THEN collectFrom(list, current + 1, Append(pushed, list[current]))
  ELSE pushed

\* collectSectionElements(startH2), with the element siblings that follow
\* startH2 (event.js 247-257)
collectSectionElements(list) == collectFrom(list, 1, <<>>)

InitCollector ==
  /\ InitGet
  /\ InitTier
  /\ InitHeader
  /\ InitPair
  /\ siblings \in SiblingLists
  /\ collected = NotCollected

\* collectSectionElements(h2)  (event.js 35, 41, 53)
Collect ==
  /\ collected = NotCollected
  /\ collected' = collectSectionElements(siblings)
  /\ UNCHANGED <<getVars, tierVars, headerVars, siblings, pairVars>>

NextCollector == Collect

SpecCollect == InitCollector /\ [][NextCollector]_vars

\* ------------------------------------------------------------------------
\* Two calls of get with different ids.  A then-handler runs from its first
\* statement to its last without another handler or callback in between;
\* what interleaves are the resolutions of the two JSDOM.fromURL promises,
\* the two then-handlers and the callbacks of the two writes.
\* ------------------------------------------------------------------------
\* the elements of the 'raids' section of the page of a call
MaxPageLen == 3

\* the elements of the 'raids' section of a page
PageElements ==
  { H3("Mega Raids: Tuesday, November 11"),
    Roster(<<Item("Mewtwo", "mewtwo.png", TRUE)>>),
    Paragraph("Raid Hour: Five-Star and Mega Raids from 5:00 p.m. to 6:00 p.m. local time.") }

RECURSIVE PagesOf(_)
PagesOf(n) ==
  IF n = 0 THEN {<<>>}
  ELSE PagesOf(n - 1) \cup {Append(page, e) : page \in PagesOf(n - 1), e \in PageElements}

Pages == PagesOf(MaxPageLen)

\* var eventData = {...}  (event.js 17-20)
newEventData == [raidSchedule |-> <<>>, raidbattles |-> <<>>]

\* var globalInfo = {...}, were it a variable of the module that the
\* handlers of all calls share and none resets
newGlobalInfo_shared(all, id) ==
  IF \E o \in CallIds \ {id} : all[o].pc \in {"writing", "returned"}
  THEN all[CHOOSE o \in CallIds \ {id} : all[o].pc \in {"writing", "returned"}].globalInfo
  ELSE [raidHourTime |-> NULL, raidHourSectionId |-> NULL,
        raidTypesWithRaidHour |-> <<>>, specialNotes |-> <<>>]

\* var globalInfo = {...}: a local of the then-handler of the call,
\* whatever the other calls have done (event.js 25-30)
newGlobalInfo(all, id) ==
  [raidHourTime |-> NULL, raidHourSectionId |-> NULL,
   raidTypesWithRaidHour |-> <<>>, specialNotes |-> <<>>]

\* one element of processRaidsSection on the locals of a handler
\* (event.js 381-524)
sectionStepOf(st, element, sec1) ==
  [sec |-> sec1,
   eventData |->
     sectionRoster(sec1,
                   [st.eventData EXCEPT
                      !.raidSchedule = scheduleHeading(st.sec, @, element)],
                   element),
   globalInfo |-> sectionNote(sectionRaidHour(st.sec, st.globalInfo, element), element)]

sectionStep(st, element) ==
  sectionStepOf(st, element, sectionHeading(st.sec, st.eventData.raidSchedule, element))

\* elements.forEach of processRaidsSection (event.js 381)
RECURSIVE sectionFrom(_, _, _)
sectionFrom(st, page, i) ==
  IF i > Len(page) THEN st
  ELSE sectionFrom(sectionStep(st, page[i]), page, i + 1)

\* the record after the passes that follow the traversal of the 'raids'
\* section of a page without other sections (event.js 526-546, 58-96)
passesOf(st) ==
  [st.eventData EXCEPT
     !.raidSchedule =
        distributeBonuses(
          distributeFiveStarRaidHours(distributeRaidHours(@, st.globalInfo),
                                      st.globalInfo),
          st.globalInfo.specialNotes)]

\* the locals of the then-handler at its end
handled(page, context) ==
  sectionFrom([sec |-> startSection("raids"), eventData |-> newEventData,
               globalInfo |-> context], page, 1)

\* `files/temp/${id}.json`  (event.js 98)
tempFile(id) == id

\* get(url, id, bkp) is called: JSDOM.fromURL is started (event.js 13-15)
CallGet(id) ==
  /\ calls[id].pc = "idle"
  /\ calls' = [calls EXCEPT ![id] = [pc |-> "pending"]]
  /\ UNCHANGED <<getVars, tierVars, headerVars, collectVars, files>>

\* JSDOM.fromURL of the call resolves with its page (event.js 15-16)
CallLoaded(id, page) ==
  /\ calls[id].pc = "pending"
  /\ calls' = [calls EXCEPT ![id] = [pc |-> "loaded", page |-> page]]
  /\ UNCHANGED <<getVars, tierVars, headerVars, collectVars, files>>

\* the then-handler of the call runs and starts the write (event.js 16-98)
CallThen(id) ==
  /\ calls[id].pc = "loaded"
  /\ \E st \in {handled(calls[id].page, newGlobalInfo(calls, id))} :
        calls' = [calls EXCEPT ![id] =
                    [pc |-> "writing", page |-> calls[id].page,
                     globalInfo |-> st.globalInfo, eventData |-> passesOf(st)]]
  /\ UNCHANGED <<getVars, tierVars, headerVars, collectVars, files>>

\* the write of the call completes and its callback resolves (event.js 98-103)
CallWritten(id) ==
  /\ calls[id].pc = "writing"
  /\ files' = [files EXCEPT ![tempFile(id)] =
                 [id |-> id, type |-> "event", data |-> calls[id].eventData]]
  /\ calls' = [calls EXCEPT ![id].pc = "returned"]
  /\ UNCHANGED <<getVars, tierVars, headerVars, collectVars>>

NextPair ==
  \/ \E id \in CallIds : CallGet(id)
  \/ \E id \in CallIds : \E page \in Pages : CallLoaded(id, page)
  \/ \E id \in CallIds : CallThen(id)
  \/ \E id \in CallIds : CallWritten(id)

SpecPair == Init /\ [][NextPair]_vars

\* ------------------------------------------------------------------------
\* The sections under raid-type headings: the H3 texts are kept as they
\* are handed to parseRaidHeader, next to the static rosters that follow
\* ------------------------------------------------------------------------
\* the elements a call reads in its sections here
MaxContextElems == 3

\* non-date H3 headings of the forms of event.js 411-445
RaidTypeHeadings ==
  { "Appearing in 5-Star Raids",
    "Appearing in Mega Raids",
    "Appearing in Shadow Raids",
    "Appearing in Five-Star Shadow Raids",
    "Five-Star Shadow Raids",
    "3-Star Raids",
    "Primal Raids",
    "Mega Raids",
    "Shadow Raids" }

ContextElements ==
  {H3(t) : t \in RaidTypeHeadings \cup {"Schedule"}}
    \cup {Roster(<<Item("Mewtwo", "mewtwo.png", TRUE)>>),
          Roster(<<Item("Groudon", "groudon.png", FALSE)>>)}

\* the next element of the section, with h3Text, contextRaidType and the
\* result of parseRaidHeader at event.js 385-391
ContextElement(element) ==
  /\ pc = "section"
  /\ count < MaxContextElems
  /\ sec' = sectionHeading(sec, eventData.raidSchedule, element)
  /\ eventData' =
       sectionRoster(sec',
                     [eventData EXCEPT
                        !.raidSchedule = scheduleHeading(sec, @, element)],
                     element)
  /\ globalInfo' = sectionNote(sectionRaidHour(sec, globalInfo, element), element)
  /\ count' = count + 1
  /\ IF isHeading(element)
     THEN /\ headerText' = trim(element.textContent)
          /\ headerContext' = sec.contextRaidType
          /\ headerResult' = parseRaidHeader(trim(element.textContent), sec.contextRaidType)
     ELSE UNCHANGED headerVars
  /\ UNCHANGED <<pc, dom, day, daySections, bkp, writes, resolved, tierVars,
                 collectVars, pairVars>>

\* the one section a call reads here is the first the page has
NextContext ==
  \/ FetchLoaded
  \/ AnchorAbsent
  \/ SectionStart
  \/ \E element \in ContextElements : ContextElement(element)

SpecContext == Init /\ [][NextContext]_vars

\* ------------------------------------------------------------------------
\* The properties
\* ------------------------------------------------------------------------
Schedule == eventData.raidSchedule

namesDistinct(list) ==
  \A i, j \in 1..Len(list) : i # j => list[i].name # list[j].name

namesOf(list) == [i \in 1..Len(list) |-> list[i].name]

\* C1: no two bosses of one day of the schedule share a name, and no two
\* bosses of raidbattles share a name, whatever the traversals have read.
C1_BossNamesUnique ==
  /\ \A d \in 1..Len(Schedule) : namesDistinct(Schedule[d].bosses)
  /\ namesDistinct(eventData.raidbattles)

\* a day and raidbattles have each received both rosters, which share a name
C1_BothRostersMerged ==
  /\ \E d \in 1..Len(Schedule) :
        namesOf(Schedule[d].bosses) = <<"Mewtwo", "Kyurem (Black)", "Groudon">>
  /\ namesOf(eventData.raidbattles) = <<"Mewtwo", "Kyurem (Black)", "Groudon">>

\* C2: the bosses of every raid hour window of a day are bosses of that day.
C2_WindowBossesOfOwnDay ==
  \A d \in 1..Len(Schedule) :
     \A h \in 1..Len(Schedule[d].raidHours) :
        elements(Schedule[d].raidHours[h].bosses) \subseteq elements(Schedule[d].bosses)

\* two days hold different bosses; the pass that ends the section has given
\* one its window of Mega bosses and the 5-star pass the other its window
C2_WindowsOnTwoDays ==
  /\ pc = "bonuses"
  /\ \E d1, d2 \in 1..Len(Schedule) :
        /\ d1 # d2
        /\ namesOf(Schedule[d1].bosses) # namesOf(Schedule[d2].bosses)
        /\ Len(Schedule[d1].raidHours) = 1
        /\ Len(Schedule[d2].raidHours) = 1
        /\ \A b \in elements(Schedule[d1].raidHours[1].bosses) : b.raidType = "Mega"
        /\ \A b \in elements(Schedule[d2].raidHours[1].bosses) : b.raidType = "Tier 5"

\* a step of a post-processing pass: the pass that ends a section, the
\* 5-star pass, the bonus pass
PassStep ==
  \/ pc = "section" /\ pc' # "section"
  \/ pc = "days" /\ pc' = "bonuses"
  \/ pc = "bonuses" /\ pc' = "write"

\* C3: a post-processing pass changes the raidHours of no day that has a
\* window when the pass runs: it attaches a window only where raidHours is
\* empty.
C3_PassesKeepWindows ==
  [][PassStep =>
       /\ Len(Schedule') = Len(Schedule)
       /\ \A d \in 1..Len(Schedule) :
             Schedule[d].raidHours # <<>> =>
               Schedule'[d].raidHours = Schedule[d].raidHours]_vars

\* the 5-star pass has run with a time to distribute over a day of 5-star
\* bosses whose only window is the one its day section appended
C3_DayWindowKept ==
  /\ pc = "bonuses"
  /\ truthy(globalInfo.raidHourTime)
  /\ globalInfo.raidHourSectionId = "appearing-in-5-star-raids"
  /\ \E d \in 1..Len(Schedule) :
        /\ fiveStarBossesOf(Schedule[d]) # <<>>
        /\ Len(Schedule[d].raidHours) = 1
        /\ Schedule[d].raidHours[1].time = "6:00 p.m. to 7:00 p.m. local time"

\* the fields of a backup entry the catch handler can use
usableFields(entry) ==
  IF entry.eventID # EventId \/ entry.extraData = JsNull THEN {}
  ELSE IF "event" \in DOMAIN entry.extraData THEN DOMAIN entry.extraData["event"]
  ELSE DOMAIN entry.extraData \cap {"raidSchedule", "raidbattles"}

C5_AbsentNodeIsNothingFound ==
  dom \in {"loaded", "loadedBare"} => pc # "catch"

\* a step of the catch handler that reads the next entry of the backup
ReadsEntry == pc = "catch" /\ Len(bkp') = Len(bkp) + 1

\* C6: for a backup entry of the event with flattened extra-data, the
\* record written has in data exactly the keys among raidSchedule and
\* raidbattles that the extra-data has, with their values, and nothing is
\* written when it has neither.
C6_FlattenedFallbackKeys ==
  [][ReadsEntry =>
       LET entry == bkp'[Len(bkp')]
           keys  == DOMAIN entry.extraData \cap {"raidSchedule", "raidbattles"}
       IN  /\ entry.eventID = EventId
           /\ entry.extraData # JsNull
           /\ "event" \notin DOMAIN entry.extraData
           => IF keys = {} THEN Len(writes') = Len(writes)
              ELSE /\ Len(writes') = Len(writes) + 1
                   /\ writes'[Len(writes')].id = EventId
                   /\ writes'[Len(writes')].type = "event"
                   /\ DOMAIN writes'[Len(writes')].data = keys
                   /\ \A k \in keys :
                         writes'[Len(writes')].data[k] = entry.extraData[k]]_vars

\* the fetch failed and the entry with raidSchedule and without raidbattles
\* gave a record whose data has the key raidSchedule alone
C6_RaidScheduleAlone ==
  /\ dom = "rejected"
  /\ Len(bkp) = 1
  /\ "event" \notin DOMAIN bkp[1].extraData
  /\ Len(writes) = 1
  /\ DOMAIN writes[1].data = {"raidSchedule"}
  /\ writes[1].data["raidSchedule"] = bkp[1].extraData["raidSchedule"]

StarLabels == {"Tier 1", "Tier 3", "Tier 5", "Tier 6"}

\* C7: getTierFromRaidType maps every label a boss stores to itself.
C7_LabelMapsToItself ==
  tierAgain # Unclassified /\ tierResult # NULL => tierAgain = tierResult

\* C7 (as the code has it): getTierFromRaidType maps the labels Mega,
\* Primal and Shadow to themselves and the labels Tier 1, Tier 3, Tier 5
\* and Tier 6 to null.
C7_NamedLabelsMapToThemselves ==
  tierAgain # Unclassified =>
    /\ tierResult \in TierLabels \ StarLabels => tierAgain = tierResult
    /\ tierResult \in StarLabels => tierAgain = NULL

\* the label Shadow of a heading without 'star' has been classified again
C7_ShadowClassifiedAgain ==
  /\ tierInput = "Shadow Raids"
  /\ tierResult = "Shadow"
  /\ tierAgain = "Shadow"

TierOrder == <<"Tier 1", "Tier 3", "Tier 5", "Tier 6", "Mega", "Primal", "Shadow">>

TierWords ==
  << {"one-star", "1-star"}, {"three-star", "3-star"}, {"five-star", "5-star"},
     {"six-star", "6-star"}, {"mega"}, {"primal"}, {"shadow"} >>

\* the text has a word of the k-th tier; Shadow asks for no 'star' as well
tierPresent(lower, k) ==
  /\ \E w \in TierWords[k] : includes(lower, w)
  /\ k = 7 => ~includes(lower, "star")

firstTier(text) ==
  IF text = NULL \/ \A k \in 1..7 : ~tierPresent(toLowerCase(text), k) THEN NULL
  ELSE TierOrder[Min({k \in 1..7 : tierPresent(toLowerCase(text), k)})]

\* C8: the result of getTierFromRaidType is the first tier, in the order
\* Tier 1, Tier 3, Tier 5, Tier 6, Mega, Primal, Shadow (without 'star'),
\* that has one of its words in the text, and null if none has; a text with
\* a star tier and 'shadow' never gives Shadow.
C8_FirstTierInOrder ==
  tierResult # Unclassified =>
    /\ tierResult \in TierLabels \cup {NULL}
    /\ tierResult = firstTier(tierInput)
    /\ tierInput # NULL /\ includes(toLowerCase(tierInput), "star")
       => tierResult # "Shadow"

\* a text with a star tier and 'shadow' has been classified
C8_StarTierWithShadow ==
  /\ tierInput = "Five-Star Shadow Raids"
  /\ tierResult = "Tier 5"

\* the bosses of the record, wherever it holds them
AllBosses ==
  elements(eventData.raidbattles)
    \cup UNION {elements(Schedule[d].bosses) : d \in 1..Len(Schedule)}
    \cup UNION {UNION {elements(Schedule[d].raidHours[h].bosses) :
                         h \in 1..Len(Schedule[d].raidHours)} :
                  d \in 1..Len(Schedule)}

\* C9: every boss of the record, in a day, in a window or in raidbattles,
\* has for raidType one of the seven labels or null, and the record written
\* on the success path is that record.
C9_RaidTypeIsLabelOrNull ==
  /\ \A boss \in AllBosses : boss.raidType \in TierLabels \cup {NULL}
  /\ pc = "returned" /\ dom = "loaded" =>
       Len(writes) = 1 /\ writes[1].data = eventData

\* the record written holds a boss found under a dated heading and a boss
\* found under a context heading, in a day, in a window and in raidbattles
C9_RecordWithTypedBosses ==
  /\ pc = "returned"
  /\ dom = "loaded"
  /\ \E boss \in elements(eventData.raidbattles) : boss.raidType = "Mega"
  /\ \E d \in 1..Len(Schedule) :
        /\ \E boss \in elements(Schedule[d].bosses) : boss.raidType = "Tier 5"
        /\ Schedule[d].raidHours # <<>>

\* C10: no two entries of the schedule have the same date label.
C10_DateLabelsUnique ==
  \A i, j \in 1..Len(Schedule) : i # j => Schedule[i].date # Schedule[j].date

\* a day section is entered for the label of the entry a section made, the
\* only entry of the schedule, and takes that entry
C10_DayReusesSectionEntry ==
  /\ pc = "daySection"
  /\ day = [NoDay EXCEPT !.dateEntry = 1]
  /\ Len(Schedule) = 1
  /\ Schedule[1].bosses # <<>>

\* C11: parseRaidHeader tries 'Type: Date', then the date-only format, then
\* 'appearing in ... raids (Weekday)', and the first that matches decides:
\* a text '<type>: <date>' gives the text before the colon and the text
\* after it, whatever the context and whatever else the type part looks
\* like; a text that starts with a date and holds no colon gives the context
\* and the date matched when the context is supplied and nothing when it is
\* not; an 'appearing in' text gives the tier phrase and the bare weekday;
\* any other text gives nothing.
C11_FirstFormatWins ==
  headerResult # Unparsed =>
    /\ \A t \in HeaderTypes, c \in HeaderColons, d \in HeaderDates :
          headerText = t \o c \o d => headerResult = [raidType |-> t, date |-> d]
    /\ \A d \in {"Tuesday, November 11", "monday, november 10"}, e \in HeaderDateTails :
          headerText = d \o e =>
            headerResult = IF headerContext \in {NULL, ""} THEN NoHeader
                           ELSE [raidType |-> headerContext, date |-> d]
    /\ \A l \in HeaderLeads, t \in HeaderTiers, w \in HeaderWeekdays :
          headerText = l \o t \o " (" \o w \o ")" =>
            headerResult = [raidType |-> t, date |-> w]
    /\ headerText \in HeaderOthers => headerResult = NoHeader
    /\ headerText = "Five-Star Raids: Tuesday, November 11" =>
          headerResult = [raidType |-> "Five-Star Raids", date |-> "Tuesday, November 11"]
    /\ headerText = "Appearing in 5-Star Raids (Saturday)" =>
          headerResult = [raidType |-> "5-Star Raids", date |-> "Saturday"]

\* a text that is a date before its colon and a date after it has been
\* parsed with a context, and the 'Type: Date' format has decided
C11_TypeAndDateBeforeContext ==
  /\ headerText = "Tuesday, November 11: monday, november 10"
  /\ headerContext = "Mega Raids"
  /\ headerResult = [raidType |-> "Tuesday, November 11", date |-> "monday, november 10"]

\* C12: while a day section is traversed, the date label of the day it
\* created or located is exactly the 'Weekday, Month Day' text its H2 heading
\* starts with: the label is a date from its first character to its last.
C12_DayLabelIsLeadingDate ==
  pc = "daySection" =>
    \E label \in {toLowerCase(Schedule[day.dateEntry].date)} :
       datePatternEnd(label, 1) = Len(label) + 1

\* the record a call emits for a page when no other call is made
recordAlone(page) ==
  passesOf(handled(page, [raidHourTime |-> NULL, raidHourSectionId |-> NULL,
                          raidTypesWithRaidHour |-> <<>>, specialNotes |-> <<>>]))

\* C13: of two calls of get with different ids, whatever the order of their
\* steps, a step of one call changes neither the locals nor the file of the
\* other, and the file a call has written holds its id and the record the
\* call emits for its page when it runs alone.
C13_CallsShareNothing ==
  /\ [](\A id \in CallIds :
          files[id] # NoFile =>
             files[id] = [id |-> id, type |-> "event",
                          data |-> recordAlone(calls[id].page)])
  /\ [][\A id \in CallIds :
           calls'[id] # calls[id] =>
              \A o \in CallIds \ {id} : calls'[o] = calls[o] /\ files'[o] = files[o]]_vars

\* both calls have run their handler on a page with the Mega roster of a
\* date; the page of one announces a raid hour and the page of the other
\* does not, and only the record of the first holds a window
C13_TwoRecordsWritten ==
  /\ calls[OtherId].pc = "returned"
  /\ calls[EventId].pc = "returned"
  /\ Len(files[OtherId].data.raidSchedule) = 1
  /\ Len(files[EventId].data.raidSchedule) = 1
  /\ files[OtherId].data.raidSchedule[1].raidHours = <<>>
  /\ files[EventId].data.raidSchedule[1].raidHours # <<>>

\* the bosses of a day whose lower-cased tier label contains a recorded keyword
keywordBosses(d) == raidHourBossesOf(Schedule[d], globalInfo)

\* C14 as stated: in the final record, when a raid hour time was recorded,
\* every day with a boss whose tier label contains a recorded keyword carries
\* a window, and a window with the recorded time is the only one of its day
\* and holds exactly those bosses.
C14_EveryKeywordDayHasWindow ==
  pc = "write" /\ truthy(globalInfo.raidHourTime) =>
    \A d \in 1..Len(Schedule) :
       keywordBosses(d) # <<>> =>
         /\ Schedule[d].raidHours # <<>>
         /\ Schedule[d].raidHours[1].time = globalInfo.raidHourTime =>
               Schedule[d].raidHours =
                 <<[time |-> globalInfo.raidHourTime, bosses |-> keywordBosses(d)]>>

\* the bosses of a day labelled 'Tier 5'
tierFiveBosses(d) ==
  filter(Schedule[d].bosses,
         {boss \in elements(Schedule[d].bosses) : boss.raidType = "Tier 5"})

\* C14, amended: the keyword pass runs at the end of each section-based
\* traversal, on the days the schedule holds then; once the anchor sections
\* are done no step selects bosses by keyword: day-based traversal changes
\* only the windows of its own day, with the time of its own paragraph, and
\* the one pass that follows all traversal gives a window to a day without
\* one only when the last 'Raid Hour' paragraph stood in the 5-star section,
\* and then to its 'Tier 5' bosses.
C14_KeywordPassEndsEachSection ==
  [][/\ (pc = "section" /\ pc' # "section") =>
          \A d \in 1..Len(Schedule) :
             Schedule'[d] =
               IF /\ truthy(globalInfo.raidHourTime)
                  /\ Schedule[d].raidHours = <<>>
                  /\ keywordBosses(d) # <<>>
               THEN [Schedule[d] EXCEPT !.raidHours =
                       <<[time |-> globalInfo.raidHourTime,
                          bosses |-> keywordBosses(d)]>>]
               ELSE Schedule[d]
     /\ pc \in {"days", "daySection"} =>
          \A d \in 1..Len(Schedule) :
             Schedule'[d].raidHours # Schedule[d].raidHours =>
               \/ /\ pc = "daySection" /\ pc' = "days" /\ d = day.dateEntry
                  /\ Schedule'[d].raidHours[Len(Schedule'[d].raidHours)].time
                       = day.raidHourTime
               \/ /\ pc = "days" /\ pc' = "bonuses"
                  /\ truthy(globalInfo.raidHourTime)
                  /\ globalInfo.raidHourSectionId = "appearing-in-5-star-raids"
                  /\ Schedule[d].raidHours = <<>>
                  /\ Schedule'[d].raidHours =
                       <<[time |-> globalInfo.raidHourTime,
                          bosses |-> tierFiveBosses(d)]>>]_vars

\* the 'raids' section has recorded a time and the keyword 'mega'; a day
\* that only day-based traversal has created holds Mega bosses, and the
\* final record gives it no window
C14_DayOnlyWithoutWindow ==
  /\ pc = "write"
  /\ truthy(globalInfo.raidHourTime)
  /\ globalInfo.raidHourSectionId = "raids"
  /\ \E k \in 1..Len(globalInfo.raidTypesWithRaidHour) :
        globalInfo.raidTypesWithRaidHour[k] = "mega"
  /\ \E d \in 1..Len(Schedule) :
        /\ Schedule[d].date = "Friday, February 27"
        /\ \E b \in 1..Len(Schedule[d].bosses) : Schedule[d].bosses[b].raidType = "Mega"
        /\ Schedule[d].raidHours = <<>>

\* the tier label of the bosses a recorded keyword stands for
KeywordLabel ==
  [k \in {"five-star", "shadow", "mega", "primal"} |->
     IF k = "five-star" THEN "Tier 5"
     ELSE IF k = "shadow" THEN "Shadow"
     ELSE IF k = "mega" THEN "Mega" ELSE "Primal"]

\* C15: when the traversal of the 'raids' section has ended with a time
\* recorded, every day scheduled in it that holds bosses of the tier of a
\* recorded keyword has one window, with that time, which holds those bosses.
C15_KeywordSelectsItsTier ==
  pc = "fiveStar" /\ truthy(globalInfo.raidHourTime) =>
    \A k \in 1..Len(globalInfo.raidTypesWithRaidHour) :
       \A d \in 1..Len(Schedule) :
          \A boss \in elements(Schedule[d].bosses) :
             boss.raidType = KeywordLabel[globalInfo.raidTypesWithRaidHour[k]] =>
               /\ Len(Schedule[d].raidHours) = 1
               /\ Schedule[d].raidHours[1].time = globalInfo.raidHourTime
               /\ boss \in elements(Schedule[d].raidHours[1].bosses)

\* the times the paragraphs of the 'appearing in 5-star raids' section give
FiveStarTimes ==
  {localTime(timeMatch(trim(p), FALSE), NULL) : p \in FiveStarParagraphs} \ {NULL}

\* C16: the window the final 5-star pass of get gives a day holds a time
\* that a paragraph of the 'appearing in 5-star raids' section gives, never
\* the time of the 'raids' section.
C16_FinalPassTimeOfFiveStarSection ==
  [][pc = "days" /\ pc' = "bonuses" =>
       \A d \in 1..Len(Schedule) :
          Schedule'[d].raidHours # Schedule[d].raidHours =>
            Schedule'[d].raidHours[Len(Schedule'[d].raidHours)].time \in FiveStarTimes]_vars

\* the place of the first sibling whose tag is one of Tags, or the place
\* after the last sibling
firstOf(Tags) ==
  Min({i \in 1..Len(siblings) : siblings[i].tagName \in Tags} \cup {Len(siblings) + 1})

\* C17 as stated: what collectSectionElements returns for an H2 is the
\* siblings that follow it, in their order, up to and without the first H1
\* or H2 among them.
C17_EndsAtSameOrHigherHeading ==
  collected # NotCollected =>
    collected = SubSeq(siblings, 1, firstOf({"H1", "H2"}) - 1)

\* C17, amended: what collectSectionElements returns for an H2 is the
\* element siblings that follow it, in their order, up to and without the
\* first H2 among them; an H1 among them does not end the sequence.
C17_EndsAtNextH2 ==
  collected # NotCollected =>
    collected = SubSeq(siblings, 1, firstOf({"H2"}) - 1)

\* an H1 stands between the start heading and the next H2, and the sequence
\* returned holds it and the paragraph after it
C17_H1Collected ==
  /\ Len(siblings) = 3
  /\ siblings[1].tagName = "H1"
  /\ siblings[2].tagName = "P"
  /\ siblings[3].tagName = "H2"
  /\ collected = SubSeq(siblings, 1, 2)

\* the state of day-based traversal that the locals stand for
dayState(locals) ==
  IF locals.inRaidHourSection THEN "RAID_HOUR_SECTION"
  ELSE IF truthy(locals.currentRaidType) THEN "RAID_TYPE_CONTEXT"
  ELSE "NONE"

\* C18: in day-based traversal a 'raid hour' sub-heading leads to
\* RAID_HOUR_SECTION and clears the tier, a '<tier> raids' sub-heading leads
\* to RAID_TYPE_CONTEXT with its tier, and any other sub-heading changes
\* nothing; an element changes the bosses of the day only when it is met in
\* RAID_TYPE_CONTEXT, and the raid hour time or the featured names only when
\* it is met in RAID_HOUR_SECTION; an element that changes the state changes
\* neither.
C18_DayStateMachine ==
  [][pc = "daySection" /\ pc' = "daySection" =>
       /\ day.inRaidHourSection => day.currentRaidType = NULL
       /\ \A h \in DayHeadings :
             \E next \in {dayHeading(day, H3(h))} :
                /\ h = "Raid Hours" =>
                      dayState(next) = "RAID_HOUR_SECTION" /\ next.currentRaidType = NULL
                /\ h \in {"Five-Star Raids", "Mega Raids"} =>
                      dayState(next) = "RAID_TYPE_CONTEXT" /\ next.currentRaidType = h
                /\ h = "Bonuses" => next = day
       /\ Schedule' # Schedule =>
             /\ dayState(day) = "RAID_TYPE_CONTEXT"
             /\ day' = day
             /\ \A d \in 1..Len(Schedule) : d # day.dateEntry => Schedule'[d] = Schedule[d]
             /\ Schedule'[day.dateEntry].raidHours = Schedule[day.dateEntry].raidHours
       /\ (\/ day'.raidHourTime # day.raidHourTime
           \/ day'.raidHourBossNames # day.raidHourBossNames) =>
             /\ dayState(day) = "RAID_HOUR_SECTION"
             /\ dayState(day') = "RAID_HOUR_SECTION"
             /\ Schedule' = Schedule
       /\ dayState(day') # dayState(day) =>
             /\ Schedule' = Schedule
             /\ day'.raidHourTime = day.raidHourTime
             /\ day'.raidHourBossNames = day.raidHourBossNames]_vars

\* the traversal of a day has been through all three states: after a
\* 'raid hour' sub-heading and its paragraph, a tier sub-heading and its
\* roster have given the day its bosses
C18_RosterAfterRaidHour ==
  /\ pc = "daySection"
  /\ count = 4
  /\ dayState(day) = "RAID_TYPE_CONTEXT"
  /\ day.raidHourTime = "6:00 p.m. to 7:00 p.m. local time"
  /\ day.raidHourBossNames = <<"Mewtwo", "Kyurem">>
  /\ Len(Schedule[day.dateEntry].bosses) = 2

\* the bosses of the day under traversal that a featured name resolves to:
\* the lower-cased name of the boss contains the lower-cased featured name
resolvedBosses ==
  {boss \in elements(Schedule[day.dateEntry].bosses) :
     \E n \in 1..Len(day.raidHourBossNames) :
        includes(toLowerCase(boss.name), toLowerCase(day.raidHourBossNames[n]))}

\* C19: the end of the day-based traversal of a section appends one window
\* to the date entry of the section when a raid hour time was extracted and
\* a featured name resolves to a boss of the day, and none otherwise; the
\* window holds the extracted time and, in their order, exactly the bosses
\* of the day a featured name resolves to, whenever in the section their
\* roster stood; nothing else of the schedule changes.
C19_OneWindowAtSectionEnd ==
  [][pc = "daySection" /\ pc' = "days" =>
       /\ Len(Schedule') = Len(Schedule)
       /\ \A d \in 1..Len(Schedule) : d # day.dateEntry => Schedule'[d] = Schedule[d]
       /\ Schedule'[day.dateEntry].bosses = Schedule[day.dateEntry].bosses
       /\ Schedule'[day.dateEntry].raidHours =
            IF truthy(day.raidHourTime) /\ resolvedBosses # {}
            THEN Append(Schedule[day.dateEntry].raidHours,
                        [time   |-> day.raidHourTime,
                         bosses |-> filter(Schedule[day.dateEntry].bosses,
                                           resolvedBosses)])
            ELSE Schedule[day.dateEntry].raidHours]_vars

\* the section of a day held a raid hour paragraph featuring Mewtwo and
\* Kyurem and the roster of Mewtwo and Kyurem (Black), and nothing but their
\* two sub-headings besides: the day has its window with both bosses
C19_WindowOfFeaturedBosses ==
  /\ pc = "days"
  /\ daySections = 1
  /\ count = 4
  /\ \E d \in 1..Len(Schedule) :
        /\ Schedule[d].date = "Friday, February 27"
        /\ Len(Schedule[d].raidHours) = 1
        /\ Schedule[d].raidHours[1].time = "6:00 p.m. to 7:00 p.m. local time"
        /\ namesOf(Schedule[d].raidHours[1].bosses) = <<"Mewtwo", "Kyurem (Black)">>

\* a date is active: rosters go to its entry
dateActive(locals) == truthy(locals.currentDate) /\ locals.currentDateEntry # 0

\* the headings of a section that are no date header: the date alone is one
\* only under a contextual raid type
nonDateHeadings ==
  {" Mega Raids ", "Schedule"}
    \cup (IF truthy(sec.contextRaidType) THEN {} ELSE {"Tuesday, November 11"})

\* C20: in section-based traversal an element that changes raidbattles is
\* met with no date active and changes no day of the schedule; an element
\* that changes the bosses of a day is met with a date active, the day is
\* the entry of that date, and raidbattles and the other days stay as they
\* are; an element that changes the locals adds no boss anywhere; and in
\* every state of the traversal an H3 that is no date header would leave no
\* date, raid type or date entry active, so that a roster after it would go
\* to raidbattles alone.
C20_RostersFollowActiveDate ==
  /\ [](pc = "section" =>
          \A h \in nonDateHeadings :
             \E next \in {sectionHeading(sec, Schedule, H3(h))} :
                /\ next.currentDate = NULL
                /\ next.currentRaidType = NULL
                /\ next.currentDateEntry = 0
                /\ \A r \in Rosters :
                      sectionRoster(next, eventData, Roster(r)).raidSchedule = Schedule)
  /\ [][pc = "section" /\ pc' = "section" =>
           /\ eventData'.raidbattles # eventData.raidbattles =>
                 /\ ~dateActive(sec)
                 /\ sec' = sec
                 /\ Schedule' = Schedule
           /\ \A d \in 1..Len(Schedule) :
                 Schedule'[d] # Schedule[d] =>
                    /\ dateActive(sec)
                    /\ sec' = sec
                    /\ d = sec.currentDateEntry
                    /\ Schedule[d].date = sec.currentDate
                    /\ Schedule'[d] = [Schedule[d] EXCEPT !.bosses = Schedule'[d].bosses]
                    /\ Len(Schedule') = Len(Schedule)
                    /\ eventData'.raidbattles = eventData.raidbattles
           /\ sec' # sec =>
                 /\ eventData'.raidbattles = eventData.raidbattles
                 /\ \A d \in 1..Len(Schedule) : Schedule'[d] = Schedule[d]]_vars

\* the roster under the date header of the Five-Star raids went to the day,
\* and the roster after the next heading, which is no date header, went to
\* raidbattles
C20_StaticRosterAfterReset ==
  /\ pc = "section"
  /\ count = 4
  /\ ~dateActive(sec)
  /\ Len(Schedule) = 1
  /\ \E boss \in elements(Schedule[1].bosses) : boss.raidType = "Tier 5"
  /\ \E boss \in elements(eventData.raidbattles) : boss.raidType = "Mega"

\* a name without its trailing parenthetical: what stands before the first
\* '(' of a name that ends with ')', without the spaces before the '('
withoutTrailingParenthetical(name) ==
  IF /\ Len(name) > 0
     /\ charAt(name, Len(name)) = ")"
     /\ \E o \in 1..Len(name) : charAt(name, o) = "("
  THEN trim(SubSeq(name, 1, Min({o \in 1..Len(name) : charAt(name, o) = "("}) - 1))
  ELSE name

\* a name of a boss of the day, or that name without its trailing
\* parenthetical, occurs in the note, whatever the case of the letters
noteNamesBossOf(d, note) ==
  \E boss \in elements(Schedule[d].bosses) :
     \/ includes(toLowerCase(note), toLowerCase(boss.name))
     \/ includes(toLowerCase(note), toLowerCase(withoutTrailingParenthetical(boss.name)))

\* C21: in the final record the bonuses of a day are recorded notes, and a
\* recorded note is among the bonuses of a day if and only if it names a
\* boss of that day, by its name or by its name without trailing
\* parenthetical.
C21_BonusIffNoteNamesBoss ==
  pc \in {"write", "returned"} /\ dom = "loaded" =>
    \A d \in 1..Len(Schedule) :
       /\ elements(Schedule[d].bonuses) \subseteq elements(globalInfo.specialNotes)
       /\ \A note \in elements(globalInfo.specialNotes) :
             note \in elements(Schedule[d].bonuses) <=> noteNamesBossOf(d, note)

\* the note about Kyurem is among the bonuses of the day that holds
\* Kyurem (Black) and not among those of the day that holds Mewtwo and
\* Groudon
C21_NoteOnKyuremDayOnly ==
  /\ pc = "write"
  /\ globalInfo.specialNotes = <<"Defeat Kyurem to earn Fusion Energy.">>
  /\ \E d1, d2 \in 1..Len(Schedule) :
        /\ namesOf(Schedule[d1].bosses) = <<"Mewtwo", "Kyurem (Black)">>
        /\ Schedule[d1].bonuses = <<"Defeat Kyurem to earn Fusion Energy.">>
        /\ namesOf(Schedule[d2].bosses) = <<"Mewtwo", "Groudon">>
        /\ Schedule[d2].bonuses = <<>>

\* the step of the catch handler reads an entry of the event whose
\* extra-data has the nested shape { event: {...} }
ReadsNestedEntry ==
  /\ ReadsEntry
  /\ bkp'[Len(bkp')].eventID = EventId
  /\ bkp'[Len(bkp')].extraData # JsNull
  /\ "event" \in DOMAIN bkp'[Len(bkp')].extraData

\* C22 as stated: for a backup entry of the event with nested extra-data,
\* the record written has in data exactly the keys among raidSchedule and
\* raidbattles that the nested object has, and nothing is written when it
\* has neither.
C22_NestedFallbackPicksFields ==
  [][ReadsNestedEntry =>
       LET nested == bkp'[Len(bkp')].extraData["event"]
           keys   == DOMAIN nested \cap {"raidSchedule", "raidbattles"}
       IN  IF keys = {} THEN Len(writes') = Len(writes)
           ELSE /\ Len(writes') = Len(writes) + 1
                /\ DOMAIN writes'[Len(writes')].data = keys]_vars

\* C23: the promise of a call is resolved only after the write of the
\* record it emitted has finished: in no state is the promise resolved
\* while a write the call started is still pending.
C23_ResolvedAfterWrite ==
  resolved => \A w \in 1..Len(writes) : writes[w].done

\* C24: a call of get starts at most one write of a record for its event
\* id, whatever the backup array holds.
C24_AtMostOneWrite ==
  Len(writes) <= 1

\* C25: in a section, the bosses a static roster adds to raidbattles get
\* as raidType the tier of the text of the nearest preceding H3 when that
\* H3 is a raid-type heading of a recognised form.
C25_StaticRosterTierOfHeading ==
  [][pc = "section"
       /\ Len(eventData'.raidbattles) > Len(eventData.raidbattles)
       /\ headerText \in RaidTypeHeadings
       => \A b \in Len(eventData.raidbattles) + 1..Len(eventData'.raidbattles) :
             eventData'.raidbattles[b].raidType = getTierFromRaidType(headerText)]_vars

====
